---- MODULE Spec2Model ----
(***************************************************************************)
(* A model of the apscript interpreter: the byte lexer, the Pratt parser   *)
(* with its statement grammar and diagnostics, the tree-walking evaluator  *)
(* with shared arrays and parent-chained environments, and the two entry   *)
(* points (the CLI `run` command and the embedded `interpret`).            *)
(*                                                                         *)
(* Source text is a sequence of one-character strings.  Offsets are        *)
(* 0-based as in the code; buffer.get(i) is Get(buffer, i).                *)
(***************************************************************************)
EXTENDS Integers, Sequences, FiniteSets, TLC

VARIABLES input, command, build, pc, parser, value, vm, outcome

vars == <<input, command, build, pc, parser, value, vm, outcome>>

(***************************************************************************)
(* Lexer (src/src/lexer.rs)                                                *)
(***************************************************************************)

\* buffer.get(index): the byte at a 0-based offset, or None past the end.
None == "None"

Get(buffer, i) == IF i >= 0 /\ i < Len(buffer) THEN buffer[i + 1] ELSE None

\* &buffer[start..end]
Slice(buffer, start, end) ==
    IF start >= end \/ end > Len(buffer) THEN <<>>
    ELSE SubSeq(buffer, start + 1, end)

Digits == {"0", "1", "2", "3", "4", "5", "6", "7", "8", "9"}

NonZeroDigits == Digits \ {"0"}

HexDigits == Digits \cup {"a", "b", "c", "d", "e", "f", "A", "B", "C", "D", "E", "F"}

BinDigits == {"0", "1"}

Lower == {"a", "b", "c", "d", "e", "f", "g", "h", "i", "j", "k", "l", "m",
          "n", "o", "p", "q", "r", "s", "t", "u", "v", "w", "x", "y", "z"}

Upper == {"A", "B", "C", "D", "E", "F", "G", "H", "I", "J", "K", "L", "M",
          "N", "O", "P", "Q", "R", "S", "T", "U", "V", "W", "X", "Y", "Z"}

IdentStart == Lower \cup Upper \cup {"_"}

IdentContinue == IdentStart \cup Digits

Blank == {" ", "\t"}

Newline == {"\r", "\n"}

Whitespace == Blank \cup Newline

\* `loop { match buffer.get(index) { Some(c in set) => index += 1, _ => break } }`
RECURSIVE ScanWhile(_, _, _)
ScanWhile(buffer, i, set) ==
    IF Get(buffer, i) \in set THEN ScanWhile(buffer, i + 1, set) ELSE i

\* The scan of a string body: the first offset at or after i holding `"` or None.
RECURSIVE ScanString(_, _)
ScanString(buffer, i) ==
    IF Get(buffer, i) \in {"\"", None} THEN i ELSE ScanString(buffer, i + 1)

KEYWORDS ==
    { <<<<"N", "O", "T">>, "Keyword(Not)">>,
      <<<<"n", "o", "t">>, "Keyword(Not)">>,
      <<<<"A", "N", "D">>, "Keyword(And)">>,
      <<<<"a", "n", "d">>, "Keyword(And)">>,
      <<<<"O", "R">>, "Keyword(Or)">>,
      <<<<"o", "r">>, "Keyword(Or)">>,
      <<<<"I", "F">>, "Keyword(If)">>,
      <<<<"i", "f">>, "Keyword(If)">>,
      <<<<"E", "L", "S", "E">>, "Keyword(Else)">>,
      <<<<"e", "l", "s", "e">>, "Keyword(Else)">>,
      <<<<"R", "E", "P", "E", "A", "T">>, "Keyword(Repeat)">>,
      <<<<"r", "e", "p", "e", "a", "t">>, "Keyword(Repeat)">>,
      <<<<"T", "I", "M", "E", "S">>, "Keyword(Times)">>,
      <<<<"t", "i", "m", "e", "s">>, "Keyword(Times)">>,
      <<<<"U", "N", "T", "I", "L">>, "Keyword(Until)">>,
      <<<<"u", "n", "t", "i", "l">>, "Keyword(Until)">>,
      <<<<"T", "R", "U", "E">>, "Keyword(True)">>,
      <<<<"t", "r", "u", "e">>, "Keyword(True)">>,
      <<<<"F", "A", "L", "S", "E">>, "Keyword(False)">>,
      <<<<"f", "a", "l", "s", "e">>, "Keyword(False)">>,
      <<<<"R", "E", "T", "U", "R", "N">>, "Keyword(Return)">>,
      <<<<"r", "e", "t", "u", "r", "n">>, "Keyword(Return)">>,
      <<<<"F", "O", "R">>, "Keyword(For)">>,
      <<<<"f", "o", "r">>, "Keyword(For)">>,
      <<<<"E", "A", "C", "H">>, "Keyword(Each)">>,
      <<<<"e", "a", "c", "h">>, "Keyword(Each)">>,
      <<<<"I", "N">>, "Keyword(In)">>,
      <<<<"i", "n">>, "Keyword(In)">>}

\* The PROCEDURE keyword of the aps_core lexer, which the parser matches on
\* (Keyword::Procedure); that lexer's table is not part of the sources, so
\* the two spellings follow the reserved-word list of the specification.
KEYWORDS_Procedure ==
    { <<<<"P", "R", "O", "C", "E", "D", "U", "R", "E">>, "Keyword(Procedure)">>,
      <<<<"p", "r", "o", "c", "e", "d", "u", "r", "e">>, "Keyword(Procedure)">>}

\* KEYWORDS.get(slice).unwrap_or(&Token::Identifier)
KeywordOrIdentifier(slice) ==
    LET hits == {kw \in KEYWORDS \cup KEYWORDS_Procedure : kw[1] = slice}
    IN IF hits = {} THEN "Identifier" ELSE (CHOOSE kw \in hits : TRUE)[2]

\* Token::lbp
lbp(token) ==
    CASE token \in {"LeftParen", "LeftBrack"} -> 80
      [] token \in {"Mul", "Div", "Keyword(Mod)"} -> 60
      [] token \in {"Add", "Sub"} -> 50
      [] token \in {"Less", "LessEqual", "Greater", "GreaterEqual"} -> 40
      [] token \in {"Equal", "NotEqual"} -> 30
      [] token = "Keyword(And)" -> 20
      [] token = "Keyword(Or)" -> 10
      [] OTHER -> 0

\* Lexer::new
Lexer_new ==
    [start |-> 0, index |-> 0, token |-> "EOF", has_newline_before |-> FALSE]

\* Lexer::span
Lexer_span(lex) == [start |-> lex.start, end |-> lex.index]

Deposit(lex, index, token) == [lex EXCEPT !.index = index, !.token = token]

\* Lexer::float_continue, entered with index on the `.`
float_continue(buffer, lex) ==
    Deposit(lex, ScanWhile(buffer, lex.index + 1, Digits), "FloatLiteral")

\* Lexer::integer_continue, entered with index on a digit
integer_continue(buffer, lex) ==
    LET j == ScanWhile(buffer, lex.index + 1, Digits)
    IN IF Get(buffer, j) = "."
       THEN float_continue(buffer, [lex EXCEPT !.index = j])
       ELSE Deposit(lex, j, "IntegerLiteral")

\* The single-byte tokens of Lexer::next.
Punctuation(c) ==
    CASE c = "(" -> "LeftParen"
      [] c = ")" -> "RightParen"
      [] c = "[" -> "LeftBrack"
      [] c = "]" -> "RightBrack"
      [] c = "{" -> "LeftBrace"
      [] c = "}" -> "RightBrace"
      [] c = "," -> "Comma"
      [] c = "+" -> "Add"
      [] c = "-" -> "Sub"
      [] c = "*" -> "Mul"
      [] c = "/" -> "Div"
      [] c = "%" -> "Keyword(Mod)"
      [] c = "=" -> "Equal"

PunctuationBytes == {"(", ")", "[", "]", "{", "}", ",", "+", "-", "*", "/", "%", "="}

\* The 'main loop of Lexer::next: one pass per whitespace run, then one token.
RECURSIVE next_main(_, _)
next_main(buffer, lex0) ==
    LET lex == [lex0 EXCEPT !.start = lex0.index]
        i == lex.index
        c == Get(buffer, i)
        c1 == Get(buffer, i + 1)
    IN CASE c \in Newline ->
              next_main(buffer, [lex EXCEPT !.has_newline_before = TRUE,
                                            !.index = ScanWhile(buffer, i + 1, Whitespace)])
         [] c \in Blank ->
              LET j == ScanWhile(buffer, i + 1, Blank)
              IN IF Get(buffer, j) \in Newline
                 THEN next_main(buffer, [lex EXCEPT !.has_newline_before = TRUE,
                                                    !.index = ScanWhile(buffer, j + 1, Whitespace)])
                 ELSE next_main(buffer, [lex EXCEPT !.index = j])
         [] c \in PunctuationBytes -> Deposit(lex, i + 1, Punctuation(c))
         [] c = "!" ->
              \* the `=` is looked at but index is not moved past it
              Deposit(lex, i + 1, IF c1 = "=" THEN "NotEqual" ELSE "Equal")
         [] c = ">" ->
              IF c1 = "=" THEN Deposit(lex, i + 2, "GreaterEqual")
              ELSE Deposit(lex, i + 1, "Greater")
         [] c = "<" ->
              CASE c1 = "-" -> Deposit(lex, i + 2, "ThinArrow")
                [] c1 = "=" -> Deposit(lex, i + 2, "LessEqual")
                [] OTHER -> Deposit(lex, i + 1, "Less")
         [] c \in IdentStart ->
              LET j == ScanWhile(buffer, i + 1, IdentContinue)
              IN Deposit(lex, j, KeywordOrIdentifier(Slice(buffer, i, j)))
         [] c = "0" ->
              CASE c1 \in {"x", "X"} ->
                     Deposit(lex, ScanWhile(buffer, i + 2, HexDigits), "HexLiteral")
                [] c1 \in {"b", "B"} ->
                     Deposit(lex, ScanWhile(buffer, i + 2, BinDigits), "BinaryLiteral")
                [] c1 = "." -> float_continue(buffer, [lex EXCEPT !.index = i + 1])
                [] c1 \in NonZeroDigits -> integer_continue(buffer, [lex EXCEPT !.index = i + 1])
                [] OTHER -> Deposit(lex, i + 1, "IntegerLiteral")
         [] c = "\"" ->
              \* InvalidStringLiteral is set inside the loop and then overwritten
              \* by the assignment that follows it
              LET j == ScanString(buffer, i + 1)
              IN Deposit(lex, IF Get(buffer, j) = "\"" THEN j + 1 ELSE j, "StringLiteral")
         [] c \in NonZeroDigits -> integer_continue(buffer, lex)
         [] c = None -> Deposit(lex, i, "EOF")
         [] OTHER -> lex    \* any other byte: `_ => {}`

\* Lexer::next without `self.has_newline_before = false`: the flag of the
\* call before stays.
Lexer_next_NoReset(buffer, lex) == next_main(buffer, lex)

\* Lexer::next
Lexer_next(buffer, lex) ==
    next_main(buffer, [lex EXCEPT !.has_newline_before = FALSE])

(***************************************************************************)
(* AST (src/src/ast.rs) and parser (src/aps_core/src/parser.rs)            *)
(***************************************************************************)

\* The longest run of Lexer::next calls one parse may make before the model
\* gives the parse up as not terminating.
MaxLexCalls == 400

Span(start, end) == [start |-> start, end |-> end]

\* <Expr as Node>::span
RECURSIVE ExprSpan(_)
ExprSpan(e) ==
    CASE e.t = "True" -> Span(e.start, e.start + 4)
      [] e.t = "False" -> Span(e.start, e.start + 5)
      [] e.t = "BinaryOp" -> Span(ExprSpan(e.lhs).start, ExprSpan(e.rhs).end)
      [] e.t = "Void" -> Span(0, 0)    \* unreachable!() in the code; never asked for
      [] OTHER -> e.span

\* impl From<Token> for BinaryOpKind
BinaryOpKind(token) ==
    CASE token = "Add" -> "Add"
      [] token = "Sub" -> "Sub"
      [] token = "Mul" -> "Mul"
      [] token = "Div" -> "Div"
      [] token = "Keyword(Mod)" -> "Mod"
      [] token = "Equal" -> "Equal"
      [] token = "NotEqual" -> "NotEqual"
      [] token = "Less" -> "Less"
      [] token = "LessEqual" -> "LessEqual"
      [] token = "Greater" -> "Greater"
      [] token = "GreaterEqual" -> "GreaterEqual"
      [] token = "Keyword(And)" -> "And"
      [] token = "Keyword(Or)" -> "Or"

\* Parser::new; `calls` counts the Lexer::next calls made so far and
\* `diverged` records that the parse was given up after MaxLexCalls of them.
Parser_new ==
    [lex |-> Lexer_new, diagnostics |-> <<>>, calls |-> 0, diverged |-> FALSE]

\* self.lex.next()
Advance(buffer, p) ==
    [p EXCEPT !.lex = Lexer_next(buffer, p.lex), !.calls = p.calls + 1]

\* self.diagnostics.push(Diagnostic::error().with_message(..).with_labels(primary span))
Diagnose(p, message, span) ==
    [p EXCEPT !.diagnostics = Append(p.diagnostics, [message |-> message, span |-> span])]

\* Result<T>: Ok(x) or Err(()), with the parser state it leaves behind.
Ok(x, p) == [ok |-> TRUE, x |-> x, p |-> p]

Err(p) == [ok |-> FALSE, x |-> <<>>, p |-> p]

\* `let x = ..;`: the value is computed once and the rest goes on with it.
With(x, cont(_)) == cont(x)

\* The `?` operator: an Err is returned at once, an Ok goes on to the rest.
Try(r, cont(_)) == IF r.ok THEN cont(r) ELSE r

OutOfFuel(p) == p.diverged \/ p.calls >= MaxLexCalls

GiveUp(p) == Err([p EXCEPT !.diverged = TRUE])

\* Parser::eat
eat(buffer, p, tok) ==
    IF p.lex.token # tok
    THEN Err(Diagnose(p, <<"expected", tok, "found", p.lex.token>>, Lexer_span(p.lex)))
    ELSE Ok(Lexer_span(p.lex), Advance(buffer, p))

\* A run of `self.eat(tok)?;` statements: the first failure returns Err.
RECURSIVE EatAll(_, _, _)
EatAll(buffer, p, toks) ==
    IF toks = <<>> THEN Ok(<<>>, p)
    ELSE Try(eat(buffer, p, Head(toks)), LAMBDA r : EatAll(buffer, r.p, Tail(toks)))

UnaryOpKind(token) ==
    CASE token = "Keyword(Not)" -> "Not"
      [] token = "Add" -> "Pos"
      [] token = "Sub" -> "Neg"

\* The binding power the operand of a prefix operator is parsed at.
PrefixBindingPower == 70

RECURSIVE parse_simple_expr(_, _)
RECURSIVE parse_expr(_, _, _)
RECURSIVE parse_expr_loop(_, _, _, _)
RECURSIVE parse_list(_, _, _, _)

\* The element loops of array literals and call arguments:
\* `loop { if token == closer { break } push(parse_expr(0)?); if token == Comma { next } }`
parse_list(buffer, p, closer, acc) ==
    IF OutOfFuel(p) THEN GiveUp(p)
    ELSE IF p.lex.token = closer THEN Ok(acc, p)
    ELSE Try(parse_expr(buffer, p, 0), LAMBDA r :
             parse_list(buffer,
                        IF r.p.lex.token = "Comma" THEN Advance(buffer, r.p) ELSE r.p,
                        closer, Append(acc, r.x)))

\* The literal and identifier arms of Parser::parse_simple_expr.
Atom(tok, start, span) ==
    CASE tok = "Keyword(True)" -> [t |-> "True", start |-> start]
      [] tok = "Keyword(False)" -> [t |-> "False", start |-> start]
      [] tok = "Identifier" -> [t |-> "Identifier", span |-> span]
      [] tok = "StringLiteral" -> [t |-> "StringLiteral", span |-> span]
      [] tok = "IntegerLiteral" -> [t |-> "IntegerLiteral", span |-> span]
      [] tok = "FloatLiteral" -> [t |-> "FloatLiteral", span |-> span]
      [] tok = "HexLiteral" -> [t |-> "HexLiteral", span |-> span]
      [] tok = "BinaryLiteral" -> [t |-> "BinaryLiteral", span |-> span]

Atoms == {"Keyword(True)", "Keyword(False)", "Identifier", "StringLiteral",
          "IntegerLiteral", "FloatLiteral", "HexLiteral", "BinaryLiteral"}

\* Parser::parse_simple_expr
parse_simple_expr(buffer, p) ==
    IF p.lex.token \notin Atoms \cup {"LeftParen", "LeftBrack", "Keyword(Not)", "Add", "Sub"}
    THEN Err(Diagnose(p, <<"expected expression, found", p.lex.token>>, Lexer_span(p.lex)))
    ELSE With(Advance(buffer, p), LAMBDA p1 :
         CASE p.lex.token \in Atoms ->
                Ok(Atom(p.lex.token, p.lex.start, Lexer_span(p.lex)), p1)
           [] p.lex.token = "LeftParen" ->
                Try(parse_expr(buffer, p1, 0), LAMBDA inner :
                Try(eat(buffer, inner.p, "RightParen"), LAMBDA close :
                    Ok([t |-> "Paren", span |-> Span(p.lex.start, inner.p.lex.start),
                        value |-> inner.x], close.p)))
           [] p.lex.token = "LeftBrack" ->
                Try(parse_list(buffer, p1, "RightBrack", <<>>), LAMBDA values :
                Try(eat(buffer, values.p, "RightBrack"), LAMBDA close :
                    Ok([t |-> "ArrayLiteral", span |-> Span(p.lex.start, values.p.lex.index),
                        values |-> values.x], close.p)))
           [] p.lex.token \in {"Keyword(Not)", "Add", "Sub"} ->
                Try(parse_expr(buffer, p1, PrefixBindingPower), LAMBDA e :
                    Ok([t |-> "UnaryOp", span |-> Span(p.lex.start, ExprSpan(e.x).end),
                        kind |-> UnaryOpKind(p.lex.token), value |-> e.x], e.p)))

\* The loop condition of Parser::parse_expr: `if prec == 0 || prec < lbp { break }`
StopsAt(prec, min_bp) == prec = 0 \/ prec < min_bp

\* One pass of the `loop` of Parser::parse_expr once the operator has been
\* consumed: x is the left operand the next pass starts with.
parse_expr_step(buffer, p, p1, lhs) ==
    CASE p.lex.token = "LeftBrack" ->
           Try(parse_expr(buffer, p1, 0), LAMBDA index :
           Try(eat(buffer, index.p, "RightBrack"), LAMBDA close :
               Ok([t |-> "Index", span |-> Span(ExprSpan(lhs).start, index.p.lex.index),
                   value |-> lhs, index |-> index.x], close.p)))
      [] p.lex.token = "LeftParen" ->
           Try(parse_list(buffer, p1, "RightParen", <<>>), LAMBDA args :
           Try(eat(buffer, args.p, "RightParen"), LAMBDA close :
               Ok([t |-> "FnCall", span |-> Span(ExprSpan(lhs).start, args.p.lex.index),
                   calle |-> lhs, args |-> args.x], close.p)))
      [] OTHER ->
           Try(parse_expr(buffer, p1, lbp(p.lex.token)), LAMBDA rhs :
               Ok([t |-> "BinaryOp", kind |-> BinaryOpKind(p.lex.token),
                   lhs |-> lhs, rhs |-> rhs.x], rhs.p))

\* The `loop` of Parser::parse_expr, with the left operand built so far.
parse_expr_loop(buffer, p, min_bp, lhs) ==
    IF StopsAt(lbp(p.lex.token), min_bp) THEN Ok(lhs, p)
    ELSE IF OutOfFuel(p) THEN GiveUp(p)
    ELSE Try(parse_expr_step(buffer, p, Advance(buffer, p), lhs), LAMBDA next :
             parse_expr_loop(buffer, next.p, min_bp, next.x))

\* Parser::parse_expr
parse_expr(buffer, p, min_bp) ==
    Try(parse_simple_expr(buffer, p), LAMBDA lhs :
        parse_expr_loop(buffer, lhs.p, min_bp, lhs.x))

\* <Stmt as Node>::span for Return and VarAssign (src/src/ast.rs).  The span
\* of an IndexAssign belongs to the aps_core AST, which is not part of the
\* sources: it is taken to run from the root expression to the value.
StmtSpan(stmt) ==
    CASE stmt.t = "Return" ->
           Span(stmt.start,
                IF stmt.value.t = "Void" THEN stmt.start + 6 ELSE ExprSpan(stmt.value).end)
      [] stmt.t = "VarAssign" -> Span(stmt.name.start, ExprSpan(stmt.value).end)
      [] stmt.t = "IndexAssign" -> Span(ExprSpan(stmt.root).start, ExprSpan(stmt.value).end)

\* Parser::expect_stmt_end
expect_stmt_end(p) ==
    IF ~p.lex.has_newline_before /\ p.lex.token # "EOF"
    THEN Diagnose(p, <<"expected new line after statement, found", p.lex.token>>,
                  Lexer_span(p.lex))
    ELSE p

RECURSIVE parse_scope_loop(_, _, _, _)

\* Parser::parse_scope
parse_scope(buffer, p, is_global_scope) ==
    parse_scope_loop(buffer, p, is_global_scope, <<>>)

\* The block with its statements parsed as those of a procedure body,
\* whatever the scope the block stands in.
ParseBlock_Inner(buffer, p, is_global_scope) ==
    Try(eat(buffer, p, "LeftBrace"), LAMBDA open :
    Try(parse_scope(buffer, open.p, FALSE), LAMBDA scope :
    Try(eat(buffer, scope.p, "RightBrace"), LAMBDA close :
        Ok([scope |-> scope.x, end |-> scope.p.lex.index], close.p))))

\* `self.eat(LeftBrace)?; let scope = self.parse_scope(g)?; self.eat(RightBrace)?;`
\* x is the scope and `end` the value of lex.index before the brace is eaten.
ParseBlock(buffer, p, is_global_scope) ==
    Try(eat(buffer, p, "LeftBrace"), LAMBDA open :
    Try(parse_scope(buffer, open.p, is_global_scope), LAMBDA scope :
    Try(eat(buffer, scope.p, "RightBrace"), LAMBDA close :
        Ok([scope |-> scope.x, end |-> scope.p.lex.index], close.p))))

\* `self.eat(LeftParen)?; let cond = self.parse_expr(0)?; self.eat(RightParen)?;`
\* followed by a block: the head of IF, ELSE IF and REPEAT UNTIL.
ParseCondBlock(buffer, p, is_global_scope) ==
    Try(eat(buffer, p, "LeftParen"), LAMBDA open :
    Try(parse_expr(buffer, open.p, 0), LAMBDA cond :
    Try(eat(buffer, cond.p, "RightParen"), LAMBDA close :
    Try(ParseBlock(buffer, close.p, is_global_scope), LAMBDA block :
        Ok([cond |-> cond.x, scope |-> block.x.scope], block.p)))))

\* The ELSE loop of an IF statement.
RECURSIVE ParseElses(_, _, _, _)
ParseElses(buffer, p, is_global_scope, else_ifs) ==
    IF p.lex.token # "Keyword(Else)"
    THEN Ok([else_ifs |-> else_ifs, els |-> [some |-> FALSE, scope |-> <<>>]], p)
    ELSE IF OutOfFuel(p) THEN GiveUp(p)
    ELSE With(Advance(buffer, p), LAMBDA p1 :
         IF p1.lex.token = "LeftBrace"
         THEN Try(ParseBlock(buffer, p1, is_global_scope), LAMBDA block :
                  Ok([else_ifs |-> else_ifs,
                      els |-> [some |-> TRUE, scope |-> block.x.scope]], block.p))
         ELSE Try(eat(buffer, p1, "Keyword(If)"), LAMBDA kw :
              Try(ParseCondBlock(buffer, kw.p, is_global_scope), LAMBDA arm :
                  ParseElses(buffer, arm.p, is_global_scope, Append(else_ifs, arm.x)))))

\* nodes.push(stmt): x is the statement one pass of the loop of parse_scope adds.
Push(stmt, p) == Ok(<<stmt>>, p)

\* `expr <- value` once `<-` has been consumed, for an Index on the left.
ParseIndexAssign(buffer, p, target) ==
    Try(parse_expr(buffer, p, 0), LAMBDA v :
        Push([t |-> "IndexAssign", root |-> target.value, index |-> target.index,
              value |-> v.x], expect_stmt_end(v.p)))

\* A statement that starts with the expression v: an assignment to an element
\* when `<-` follows, the expression by itself otherwise.  A left side that is
\* not an Index is an Err after an identifier (`strict`) and an expression
\* statement in the arm of the other starting tokens.
ParseExprStmt(buffer, v, strict) ==
    IF v.p.lex.token # "ThinArrow"
    THEN Push([t |-> "Expr", e |-> v.x], expect_stmt_end(v.p))
    ELSE With(Advance(buffer, v.p), LAMBDA p2 :
         IF v.x.t = "Index" THEN ParseIndexAssign(buffer, p2, v.x)
         ELSE IF strict THEN Err(expect_stmt_end(p2))
         ELSE Push([t |-> "Expr", e |-> v.x], expect_stmt_end(p2)))

\* One iteration of the statement loop of Parser::parse_scope, p1 being the
\* parser after the `self.lex.next()` most arms begin with: x is the
\* statement pushed.
ParseStmt(buffer, p, p1, is_global_scope) ==
    CASE p.lex.token = "Identifier" ->
           IF p1.lex.token = "ThinArrow"
           THEN Try(parse_expr(buffer, Advance(buffer, p1), 0), LAMBDA v :
                    Push([t |-> "VarAssign", name |-> Lexer_span(p.lex), value |-> v.x],
                         expect_stmt_end(v.p)))
           ELSE Try(parse_expr(buffer,
                               Advance(buffer, [p1 EXCEPT !.lex.index = p.lex.start]), 0),
                    LAMBDA v : ParseExprStmt(buffer, v, TRUE))
      [] p.lex.token \in {"Add", "Sub", "IntegerLiteral", "LeftBrack", "LeftParen"} ->
           Try(parse_expr(buffer, p, 0), LAMBDA v : ParseExprStmt(buffer, v, FALSE))
      [] p.lex.token = "Keyword(If)" ->
           Try(ParseCondBlock(buffer, p1, is_global_scope), LAMBDA head :
           Try(ParseElses(buffer, head.p, is_global_scope, <<>>), LAMBDA rest :
               Push([t |-> "If", cond |-> head.x.cond, scope |-> head.x.scope,
                     else_ifs |-> rest.x.else_ifs, els |-> rest.x.els], rest.p)))
      [] p.lex.token = "Keyword(Procedure)" ->
           Try(eat(buffer, p1, "Identifier"), LAMBDA name :
           Try(EatAll(buffer, name.p, <<"LeftParen", "RightParen">>), LAMBDA parens :
           Try(ParseBlock(buffer, parens.p, FALSE), LAMBDA block :
               Push([t |-> "Procedure", name |-> name.x, params |-> <<>>,
                     scope |-> block.x.scope],
                    IF ~is_global_scope
                    THEN Diagnose(block.p,
                                  <<"PROCEDUREs cannot be outside of the global scope">>,
                                  Span(p.lex.start, block.x.end))
                    ELSE block.p))))
      [] p.lex.token = "Keyword(Return)" ->
           Try(IF p1.lex.has_newline_before \/ p1.lex.token = "EOF"
               THEN Ok([t |-> "Void"], p1)
               ELSE parse_expr(buffer, p1, 0), LAMBDA v :
           With([t |-> "Return", start |-> p.lex.start, value |-> v.x], LAMBDA ret_stmt :
               Push(ret_stmt,
                    expect_stmt_end(
                        IF is_global_scope
                        THEN Diagnose(v.p,
                                      <<"RETURN statements cannot be outside of function scopes">>,
                                      StmtSpan(ret_stmt))
                        ELSE v.p))))
      [] p.lex.token = "Keyword(Repeat)" ->
           IF p1.lex.token = "Keyword(Until)"
           THEN Try(ParseCondBlock(buffer, Advance(buffer, p1), is_global_scope), LAMBDA arm :
                    Push([t |-> "RepeatUntil", cond |-> arm.x.cond, scope |-> arm.x.scope],
                         arm.p))
           ELSE Try(parse_expr(buffer, p1, 0), LAMBDA n :
                Try(eat(buffer, n.p, "Keyword(Times)"), LAMBDA times :
                Try(ParseBlock(buffer, times.p, is_global_scope), LAMBDA block :
                    Push([t |-> "RepeatN", n |-> n.x, scope |-> block.x.scope], block.p))))
      [] p.lex.token = "Keyword(For)" ->
           Try(eat(buffer, p1, "Keyword(Each)"), LAMBDA each :
           Try(eat(buffer, each.p, "Identifier"), LAMBDA alias :
           Try(eat(buffer, alias.p, "Keyword(In)"), LAMBDA kw :
           Try(parse_expr(buffer, kw.p, 0), LAMBDA array :
           Try(ParseBlock(buffer, array.p, is_global_scope), LAMBDA block :
               Push([t |-> "For", alias |-> alias.x, array |-> array.x,
                     scope |-> block.x.scope], block.p))))))

\* The tokens a statement starts with; any other token ends parse_scope's loop.
StartsStatement(tok) ==
    tok \in {"Identifier", "Add", "Sub", "IntegerLiteral", "LeftBrack", "LeftParen",
             "Keyword(If)", "Keyword(Procedure)", "Keyword(Return)", "Keyword(Repeat)",
             "Keyword(For)"}

parse_scope_loop(buffer, p, is_global_scope, nodes) ==
    IF ~StartsStatement(p.lex.token) THEN Ok(nodes, p)
    ELSE IF OutOfFuel(p) THEN GiveUp(p)
    ELSE Try(ParseStmt(buffer, p, Advance(buffer, p), is_global_scope), LAMBDA r :
             parse_scope_loop(buffer, r.p, is_global_scope, nodes \o r.x))

(***************************************************************************)
(* Values (src/aps_core/src/vm.rs)                                         *)
(*                                                                         *)
(* A Number is an f32 in the code.  The model keeps it as an exact         *)
(* fraction num/den in lowest terms with den > 0; den = 0 stands for the   *)
(* non-finite values (num = 1: inf, num = -1: -inf, num = 0: NaN).         *)
(* Rounding to 24 bits of mantissa and the sign of zero are not modelled.  *)
(***************************************************************************)

Void == [t |-> "Void"]

Bool(b) == [t |-> "Bool", b |-> b]

String(chars) == [t |-> "String", s |-> chars]

Array(ref) == [t |-> "Array", ref |-> ref]

Builtin(name) == [t |-> "Builtin", name |-> name]

Procedure(proc) == [t |-> "Procedure", proc |-> proc]

Exception(message, span, stack) ==
    [t |-> "Exception", message |-> message, span |-> span, stack |-> stack]

\* A panic (panic!(), unreachable!(), unwrap() on Err, a RefCell/GcCell borrow
\* conflict, an arithmetic overflow check): the process aborts.
Abort(why) == [t |-> "Abort", why |-> why]

\* The evaluation was still running after MaxSteps steps.
Diverge == [t |-> "Diverge"]

Abs(n) == IF n < 0 THEN -n ELSE n

Sign(n) == IF n < 0 THEN -1 ELSE IF n > 0 THEN 1 ELSE 0

RECURSIVE Gcd(_, _)
Gcd(a, b) == IF b = 0 THEN a ELSE Gcd(b, a % b)

Number(n, d) ==
    IF d = 0 THEN [t |-> "Number", num |-> Sign(n), den |-> 0]
    ELSE LET g == Gcd(Abs(n), Abs(d))
         IN [t |-> "Number", num |-> (Sign(d) * n) \div g, den |-> Abs(d) \div g]

Int2Number(n) == Number(n, 1)

IsNaN(x) == x.den = 0 /\ x.num = 0

IsFinite(x) == x.den # 0

\* the integer part, rounding toward zero, of a finite number
Trunc(x) == Sign(x.num) * (Abs(x.num) \div x.den)

\* f32::floor(x) != x
NotIntegral(x) == IsNaN(x) \/ (IsFinite(x) /\ x.den # 1)

NumNeg(x) == [x EXCEPT !.num = -x.num]

NumAdd(x, y) ==
    IF IsFinite(x) /\ IsFinite(y) THEN Number(x.num * y.den + y.num * x.den, x.den * y.den)
    ELSE IF IsNaN(x) \/ IsNaN(y) THEN Number(0, 0)
    ELSE IF IsFinite(y) THEN x
    ELSE IF IsFinite(x) THEN y
    ELSE IF x.num = y.num THEN x ELSE Number(0, 0)

NumSub(x, y) == NumAdd(x, NumNeg(y))

NumMul(x, y) == Number(x.num * y.num, x.den * y.den)

NumDiv(x, y) ==
    LET n == x.num * y.den
        d == x.den * y.num
    IN IF d # 0 THEN Number(n, d)
       ELSE Number(Sign(n) * (IF y.num < 0 THEN -1 ELSE 1), 0)

\* the `%` of f32: the remainder has the sign of the dividend
NumMod(x, y) ==
    IF IsNaN(x) \/ IsNaN(y) \/ ~IsFinite(x) \/ y.num = 0 THEN Number(0, 0)
    ELSE IF ~IsFinite(y) THEN x
    ELSE NumSub(x, NumMul(Int2Number(Trunc(NumDiv(x, y))), y))

NumLess(x, y) ==
    IF IsNaN(x) \/ IsNaN(y) THEN FALSE
    ELSE IF ~IsFinite(x) /\ ~IsFinite(y) THEN x.num < y.num
    ELSE x.num * y.den < y.num * x.den

NumEqual(x, y) == ~IsNaN(x) /\ ~IsNaN(y) /\ x.num = y.num /\ x.den = y.den

\* The value of a run of decimal digits.
RECURSIVE DigitsValue(_, _)
DigitsValue(chars, acc) ==
    IF chars = <<>> THEN acc
    ELSE DigitsValue(Tail(chars),
                     10 * acc + (CHOOSE d \in 0..9 : ToString(d) = Head(chars)))

RECURSIVE Pow10(_)
Pow10(k) == IF k = 0 THEN 1 ELSE 10 * Pow10(k - 1)

\* text.parse::<f32>().unwrap() on the text of an IntegerLiteral or FloatLiteral
ParseNumber(text) ==
    LET dot == ScanWhile(text, 0, Digits)
        whole == Slice(text, 0, dot)
        frac == Slice(text, dot + 1, Len(text))
    IN Number(DigitsValue(whole \o frac, 0), Pow10(Len(frac)))

\* `idx as u32 as usize - 1` (Index, IndexAssign).  The cast saturates: NaN and
\* anything below 1 give 0, and 0 - 1 overflows: a build with overflow checks
\* (debug) panics, one without (release) wraps to usize::MAX, which like the
\* cast of inf lies past the end of every Vec (`far`).
ItemSlot(idx, overflow_checks) ==
    IF IsNaN(idx) \/ (IsFinite(idx) /\ Trunc(idx) < 1) \/ (~IsFinite(idx) /\ idx.num < 0)
    THEN [panic |-> overflow_checks, far |-> TRUE, slot |-> 0]
    ELSE IF ~IsFinite(idx) THEN [panic |-> FALSE, far |-> TRUE, slot |-> 0]
    ELSE [panic |-> FALSE, far |-> FALSE, slot |-> Trunc(idx) - 1]

(***************************************************************************)
(* Evaluator state.  Environments (Rc<RefCell<Env>>) and arrays            *)
(* (Gc<GcCell<Array>>) are shared objects: a value refers to them by their *)
(* position in `envs` and `heap`.  An array carries its GcCell borrow      *)
(* flags.  `out` is what DISPLAY has written, one entry per call; `log`    *)
(* records, in order, every expression evaluated, statement started,       *)
(* built-in called, binding or element written and exception raised;       *)
(* `steps` counts statements and loop iterations.                          *)
(***************************************************************************)

\* The number of statements and loop iterations after which an evaluation is
\* given up as not terminating.
MaxSteps == 20

NoSpan == Span(0, 0)

Event(k, what, span) == [k |-> k, what |-> what, span |-> span]

Log(s, k, what, span) == [s EXCEPT !.log = Append(s.log, Event(k, what, span))]

Ret(v, s) == [v |-> v, s |-> s]

\* fail!(message, span)
fail(message, span, s) ==
    Ret(Exception(message, span, <<>>), Log(s, "raise", message, span))

Panic(why, s) == Ret(Abort(why), s)

\* tee!: an Exception is returned at once.  A panic unwinds through every
\* frame the same way, and so does the model's giving up.
Escapes(v) == v.t \in {"Exception", "Abort", "Diverge"}

\* Env::get
RECURSIVE Env_get(_, _, _)
Env_get(envs, env, name) ==
    IF name \in DOMAIN envs[env].entries THEN [some |-> TRUE, v |-> envs[env].entries[name]]
    ELSE IF envs[env].parent # 0 THEN Env_get(envs, envs[env].parent, name)
    ELSE [some |-> FALSE, v |-> Void]

\* entries.insert(name, v)
Insert(entries, name, v) ==
    [n \in DOMAIN entries \cup {name} |-> IF n = name THEN v ELSE entries[n]]

Env_insert(s, env, name, v) ==
    Log([s EXCEPT !.envs[env].entries = Insert(s.envs[env].entries, name, v)],
        "write", "env", NoSpan)

\* The walk of VarAssign: the nearest environment on the parent chain that
\* binds the name, or 0.
RECURSIVE Binder(_, _, _)
Binder(envs, cur_env, name) ==
    IF name \in DOMAIN envs[cur_env].entries THEN cur_env
    ELSE IF envs[cur_env].parent # 0 THEN Binder(envs, envs[cur_env].parent, name)
    ELSE 0

\* Gc::new(GcCell::new(Array { items }))
NewArray(s, items) ==
    Ret(Array(Len(s.heap) + 1),
        [s EXCEPT !.heap = Append(s.heap, [items |-> items, readers |-> 0, writer |-> FALSE])])

\* GcCell::borrow and GcCell::borrow_mut panic on a conflicting borrow.
CanBorrow(s, ref) == ~s.heap[ref].writer

CanBorrowMut(s, ref) == ~s.heap[ref].writer /\ s.heap[ref].readers = 0

Borrow(s, ref) == [s EXCEPT !.heap[ref].readers = s.heap[ref].readers + 1]

Release(s, ref) == [s EXCEPT !.heap[ref].readers = s.heap[ref].readers - 1]

BorrowMut(s, ref) == [s EXCEPT !.heap[ref].writer = TRUE]

ReleaseMut(s, ref) == [s EXCEPT !.heap[ref].writer = FALSE]

\* impl Display for Value, the String arm: a backslash is dropped together
\* with the character after it (`iter.next(); continue`).
RECURSIVE fmt_string(_)
fmt_string(chars) ==
    IF chars = <<>> THEN <<>>
    ELSE IF Head(chars) = "\\"
    THEN (IF Len(chars) >= 2 THEN fmt_string(Tail(Tail(chars))) ELSE <<>>)
    ELSE <<Head(chars)>> \o fmt_string(Tail(chars))

\* impl Display for Value: a String is written through fmt_string, an Array
\* item by item (borrowing the array), every other value as it is.
RECURSIVE fmt(_, _)
RECURSIVE fmt_items(_, _)
fmt_items(items, s) ==
    IF items = <<>> THEN <<>>
    ELSE <<IF Head(items).t = "Array" THEN fmt(Head(items), s) ELSE Head(items)>>
         \o fmt_items(Tail(items), s)

fmt(v, s) ==
    CASE v.t = "String" -> [t |-> "Text", s |-> fmt_string(v.s)]
      [] v.t = "Array" -> [t |-> "Items", items |-> fmt_items(s.heap[v.ref].items, s)]
      [] OTHER -> v

\* display_helper: the arguments as written, or a panic when an array to be
\* written is mutably borrowed.
display_helper(args, s) == [i \in 1..Len(args) |-> fmt(args[i], s)]

Displayable(args, s) ==
    \A i \in 1..Len(args) : args[i].t = "Array" => CanBorrow(s, args[i].ref)

\* stdlib::display
display(args, s) ==
    IF ~Displayable(args, s) THEN Panic("already mutably borrowed", s)
    ELSE Ret(Void, [s EXCEPT !.out = Append(s.out, display_helper(args, s))])

\* fail!(message, BUILTIN)
fail_BUILTIN(message, s) == Ret(Exception(message, NoSpan, <<>>), s)

\* stdlib::validate_index without its `idx.floor() != idx` test: a fraction
\* is cut down to its integer part by the cast.
validate_index_Truncating(idx) ==
    IF NumLess(idx, Int2Number(1))
    THEN [ok |-> FALSE, message |-> "array index out of range", x |-> 0]
    ELSE [ok |-> TRUE, message |-> "", x |-> IF IsFinite(idx) THEN Trunc(idx) ELSE -1]

\* stdlib::validate_index: x is the index as usize.
validate_index(idx) ==
    IF NotIntegral(idx) THEN [ok |-> FALSE, message |-> "array index is not an integer", x |-> 0]
    ELSE IF NumLess(idx, Int2Number(1))
    THEN [ok |-> FALSE, message |-> "array index out of range", x |-> 0]
    ELSE [ok |-> TRUE, message |-> "", x |-> IF IsFinite(idx) THEN Trunc(idx) ELSE -1]

\* stdlib::append
append(args, s) ==
    IF Len(args) < 1 \/ args[1].t # "Array"
    THEN fail_BUILTIN("expected array for the first argument", s)
    ELSE IF Len(args) < 2 THEN fail_BUILTIN("expected value for the second argument", s)
    ELSE IF ~CanBorrowMut(s, args[1].ref) THEN Panic("already borrowed", s)
    ELSE Ret(Void, Log([s EXCEPT !.heap[args[1].ref].items = Append(@, args[2])],
                       "write", "array", NoSpan))

InsertAt(items, k, v) == SubSeq(items, 1, k - 1) \o <<v>> \o SubSeq(items, k, Len(items))

RemoveAt(items, k) == SubSeq(items, 1, k - 1) \o SubSeq(items, k + 1, Len(items))

\* The end of stdlib::insert and stdlib::remove once the index is valid:
\* `items` is what the array holds afterwards.
Splice(ref, correct_idx, items, s) ==
    IF ~CanBorrowMut(s, ref) THEN Panic("already borrowed", s)
    ELSE IF correct_idx = -1 \/ correct_idx > Len(s.heap[ref].items)
    THEN fail_BUILTIN("array index out of range", s)
    ELSE Ret(Void, Log([s EXCEPT !.heap[ref].items = items], "write", "array", NoSpan))

\* stdlib::insert
insert(args, s) ==
    IF Len(args) < 1 \/ args[1].t # "Array"
    THEN fail_BUILTIN("expected array for the first argument", s)
    ELSE IF Len(args) < 2 \/ args[2].t # "Number"
    THEN fail_BUILTIN("expected index for the second argument", s)
    ELSE IF Len(args) < 3 THEN fail_BUILTIN("expected value for the third argument", s)
    ELSE With(validate_index(args[2]), LAMBDA correct_idx :
         IF ~correct_idx.ok THEN fail_BUILTIN(correct_idx.message, s)
         ELSE Splice(args[1].ref, correct_idx.x,
                     InsertAt(s.heap[args[1].ref].items, correct_idx.x, args[3]), s))

\* stdlib::remove
remove(args, s) ==
    IF Len(args) < 1 \/ args[1].t # "Array"
    THEN fail_BUILTIN("expected array for the first argument", s)
    ELSE IF Len(args) < 2 \/ args[2].t # "Number"
    THEN fail_BUILTIN("expected number for the second argument", s)
    ELSE With(validate_index(args[2]), LAMBDA correct_idx :
         IF ~correct_idx.ok THEN fail_BUILTIN(correct_idx.message, s)
         ELSE Splice(args[1].ref, correct_idx.x,
                     RemoveAt(s.heap[args[1].ref].items, correct_idx.x), s))

\* stdlib::length
length(args, s) ==
    IF Len(args) < 1 \/ args[1].t # "Array"
    THEN fail_BUILTIN("expected the first argument to be an array", s)
    ELSE IF ~CanBorrow(s, args[1].ref) THEN Panic("already mutably borrowed", s)
    ELSE Ret(Int2Number(Len(s.heap[args[1].ref].items)), s)

\* The names stdlib::inject binds.  INPUT and RANDOM read the terminal and
\* the random source; no program of this model calls them and they are left
\* out.
BuiltinNames ==
    { <<"D", "I", "S", "P", "L", "A", "Y">>, <<"A", "P", "P", "E", "N", "D">>,
      <<"I", "N", "S", "E", "R", "T">>, <<"R", "E", "M", "O", "V", "E">>,
      <<"L", "E", "N", "G", "T", "H">> }

\* calle.0(self, &oargs)
CallBuiltin(name, args, s0) ==
    LET s == Log(s0, "call", "builtin", NoSpan)
    IN CASE name = <<"D", "I", "S", "P", "L", "A", "Y">> -> display(args, s)
         [] name = <<"A", "P", "P", "E", "N", "D">> -> append(args, s)
         [] name = <<"I", "N", "S", "E", "R", "T">> -> insert(args, s)
         [] name = <<"R", "E", "M", "O", "V", "E">> -> remove(args, s)
         [] name = <<"L", "E", "N", "G", "T", "H">> -> length(args, s)

\* Env::new followed by stdlib::inject: the root environment.
RootEnv == [parent |-> 0, entries |-> [n \in BuiltinNames |-> Builtin(n)]]

\* VM::new with the root environment in place.
VM_new == [envs |-> <<RootEnv>>, heap |-> <<>>, out |-> <<>>, log |-> <<>>, steps |-> 0]

(***************************************************************************)
(* VM::eval_expr and VM::eval_scope.  cx is what stays fixed during a run: *)
(* the source text and whether the build checks arithmetic overflow.       *)
(***************************************************************************)

RECURSIVE eval_expr(_, _, _, _)
RECURSIVE eval_scope(_, _, _, _)
RECURSIVE EvalAll(_, _, _, _, _)
RECURSIVE ExecFrom(_, _, _, _, _)
RECURSIVE ExecElseIfs(_, _, _, _, _)
RECURSIVE ExecRepeatN(_, _, _, _, _)
RECURSIVE ExecRepeatUntil(_, _, _, _)
RECURSIVE ExecFor(_, _, _, _, _, _, _)

\* tee!(..) in eval_expr: a value that escapes is returned at once, any
\* other value goes on to the rest.
tee(r, cont(_)) == IF Escapes(r.v) THEN r ELSE cont(r)

\* The loops over array items and call arguments without `tee!`: every
\* expression is evaluated before the first Exception is returned.
RECURSIVE EvalAll_NoTee(_, _, _, _, _)
EvalAll_NoTee(exprs, acc, env, s, cx) ==
    IF exprs = <<>> THEN Ret([t |-> "Values", items |-> acc], s)
    ELSE With(eval_expr(Head(exprs), env, s, cx), LAMBDA r :
         IF r.v.t \in {"Abort", "Diverge"} THEN r
         ELSE With(EvalAll_NoTee(Tail(exprs), Append(acc, r.v), env, r.s, cx), LAMBDA others :
              IF r.v.t = "Exception" /\ others.v.t \notin {"Abort", "Diverge"}
              THEN Ret(r.v, others.s)
              ELSE others))

\* `for e in exprs { items.push(tee!(self.eval_expr(e, env.clone()))) }`:
\* v is the first value that escapes, or [t |-> "Values", items |-> ...].
EvalAll(exprs, acc, env, s, cx) ==
    IF exprs = <<>> THEN Ret([t |-> "Values", items |-> acc], s)
    ELSE tee(eval_expr(Head(exprs), env, s, cx), LAMBDA r :
             EvalAll(Tail(exprs), Append(acc, r.v), env, r.s, cx))

\* impl PartialEq for Value; arrays compare by their items.
RECURSIVE ValueEq(_, _, _)
ValueEq(l, r, heap) ==
    CASE l.t # r.t -> FALSE
      [] l.t = "Bool" -> l.b = r.b
      [] l.t = "Number" -> NumEqual(l, r)
      [] l.t = "String" -> l.s = r.s
      [] l.t = "Array" ->
           /\ Len(heap[l.ref].items) = Len(heap[r.ref].items)
           /\ \A i \in 1..Len(heap[l.ref].items) :
                  ValueEq(heap[l.ref].items[i], heap[r.ref].items[i], heap)
      [] l.t = "Builtin" -> l.name = r.name
      [] OTHER -> FALSE

\* The arithmetic and comparison arms of BinaryOp.
Arith(kind, n1, n2) ==
    CASE kind = "Add" -> NumAdd(n1, n2)
      [] kind = "Sub" -> NumSub(n1, n2)
      [] kind = "Mul" -> NumMul(n1, n2)
      [] kind = "Div" -> NumDiv(n1, n2)
      [] kind = "Mod" -> NumMod(n1, n2)
      [] kind = "Greater" -> Bool(NumLess(n2, n1))
      [] kind = "GreaterEqual" -> Bool(NumLess(n2, n1) \/ NumEqual(n1, n2))
      [] kind = "Less" -> Bool(NumLess(n1, n2))
      [] kind = "LessEqual" -> Bool(NumLess(n1, n2) \/ NumEqual(n1, n2))

\* The And and Or arms with both operands evaluated before the result is
\* decided.
ShortCircuit_Eager(e, stop, env, s, cx) ==
    tee(eval_expr(e.lhs, env, s, cx), LAMBDA l :
    IF l.v.t # "Bool" THEN fail("{} is not a boolean", ExprSpan(e.lhs), l.s)
    ELSE tee(eval_expr(e.rhs, env, l.s, cx), LAMBDA r :
         IF r.v.t # "Bool" THEN fail("{} is not a boolean", ExprSpan(e.rhs), r.s)
         ELSE IF l.v.b = stop THEN Ret(Bool(stop), r.s)
         ELSE Ret(Bool(r.v.b), r.s)))

\* The And and Or arms: `stop` is the left value that decides the result.
ShortCircuit(e, stop, env, s, cx) ==
    tee(eval_expr(e.lhs, env, s, cx), LAMBDA l :
    IF l.v.t # "Bool" THEN fail("{} is not a boolean", ExprSpan(e.lhs), l.s)
    ELSE IF l.v.b = stop THEN Ret(Bool(stop), l.s)
    ELSE tee(eval_expr(e.rhs, env, l.s, cx), LAMBDA r :
         IF r.v.t # "Bool" THEN fail("{} is not a boolean", ExprSpan(e.rhs), r.s)
         ELSE Ret(Bool(r.v.b), r.s)))

\* The other arms of BinaryOp: both operands are evaluated first.
Binary(e, env, s, cx) ==
    tee(eval_expr(e.lhs, env, s, cx), LAMBDA l :
    tee(eval_expr(e.rhs, env, l.s, cx), LAMBDA r :
        IF e.kind \in {"Equal", "NotEqual"} /\ l.v.t = "Array" /\ r.v.t = "Array"
           /\ ~(CanBorrow(r.s, l.v.ref) /\ CanBorrow(r.s, r.v.ref))
        THEN Panic("already mutably borrowed", r.s)
        ELSE IF e.kind = "Equal" THEN Ret(Bool(ValueEq(l.v, r.v, r.s.heap)), r.s)
        ELSE IF e.kind = "NotEqual" THEN Ret(Bool(~ValueEq(l.v, r.v, r.s.heap)), r.s)
        ELSE IF l.v.t # "Number" THEN fail("{} is not a number", ExprSpan(e.lhs), r.s)
        ELSE IF r.v.t # "Number" THEN fail("{} is not a number", ExprSpan(e.rhs), r.s)
        ELSE Ret(Arith(e.kind, l.v, r.v), r.s)))

\* `items[idx as u32 as usize - 1]` with its range check: the element at
\* slot `at` of the array, on the state s.
ItemAt(span, items, at, s) ==
    IF at.panic THEN Panic("attempt to subtract with overflow", s)
    ELSE IF at.far \/ at.slot >= Len(items)
    THEN fail("index {} is out of array range (length: {})", span, s)
    ELSE Ret(items[at.slot + 1], s)

\* The Index arm.
Index(e, env, s, cx) ==
    tee(eval_expr(e.value, env, s, cx), LAMBDA v :
    IF v.v.t # "Array" THEN fail("{} is not an array", e.span, v.s)
    ELSE tee(eval_expr(e.index, env, v.s, cx), LAMBDA idx :
         IF idx.v.t # "Number" THEN fail("{} is not an integer", e.span, idx.s)
         ELSE IF ~CanBorrow(idx.s, v.v.ref) THEN Panic("already mutably borrowed", idx.s)
         ELSE ItemAt(e.span, idx.s.heap[v.v.ref].items,
                     ItemSlot(idx.v, cx.overflow_checks), idx.s)))

\* The UnaryOp arm.
Unary(e, env, s, cx) ==
    tee(eval_expr(e.value, env, s, cx), LAMBDA val :
    IF e.kind = "Not"
    THEN (IF val.v.t # "Bool" THEN fail("{} is not a boolean", ExprSpan(e.value), val.s)
          ELSE Ret(Bool(~val.v.b), val.s))
    ELSE IF val.v.t # "Number" THEN fail("{} is not a boolean", ExprSpan(e.value), val.s)
    ELSE Ret(IF e.kind = "Pos" THEN val.v ELSE NumNeg(val.v), val.s))

\* The environment of a call: `names` bound to `values`, a later parameter
\* of the same name replacing an earlier one.
ChildEnv(env, names, values) ==
    [parent |-> env,
     entries |-> [n \in {names[i] : i \in 1..Len(names)} |->
                    values[CHOOSE i \in 1..Len(names) :
                               names[i] = n /\ \A j \in (i + 1)..Len(names) : names[j] # n]]]

\* The FnCall arm for a Procedure value with lexical scoping: the parent of
\* the environment of the call is the global environment, where procedures
\* are defined, instead of the environment of the call site.
CallProcedure_Lexical(e, proc, env, s, cx) ==
    IF Len(e.args) # Len(proc.params)
    THEN fail("expected {} arguments, found {}", e.span, s)
    ELSE tee(EvalAll(e.args, <<>>, env, s, cx), LAMBDA args :
         With(eval_scope(proc.scope, Len(args.s.envs) + 1,
                         [args.s EXCEPT !.envs =
                             Append(@, ChildEnv(1,
                                              [i \in 1..Len(proc.params) |->
                                                  Slice(cx.source, proc.params[i].start,
                                                        proc.params[i].end)],
                                              args.v.items))],
                         cx), LAMBDA res :
              IF res.v.t = "Exception"
              THEN Ret([res.v EXCEPT !.stack = Append(@, e.span)], res.s)
              ELSE res))

\* The FnCall arm for a Procedure value.
CallProcedure(e, proc, env, s, cx) ==
    IF Len(e.args) # Len(proc.params)
    THEN fail("expected {} arguments, found {}", e.span, s)
    ELSE tee(EvalAll(e.args, <<>>, env, s, cx), LAMBDA args :
         With(eval_scope(proc.scope, Len(args.s.envs) + 1,
                         [args.s EXCEPT !.envs =
                             Append(@, ChildEnv(env,
                                                [i \in 1..Len(proc.params) |->
                                                    Slice(cx.source, proc.params[i].start,
                                                          proc.params[i].end)],
                                                args.v.items))],
                         cx), LAMBDA res :
              IF res.v.t = "Exception"
              THEN Ret([res.v EXCEPT !.stack = Append(@, e.span)], res.s)
              ELSE res))

\* The FnCall arm for a Builtin value without the rewrap: the Exception of
\* the built-in is returned as it is, with its zero span.
CallBuiltinValue_AsReturned(e, name, env, s, cx) ==
    tee(EvalAll(e.args, <<>>, env, s, cx), LAMBDA oargs :
    With(CallBuiltin(name, oargs.v.items, oargs.s), LAMBDA res :
         IF res.v.t = "Exception"
         THEN Ret(res.v, Log(res.s, "raise", res.v.message, res.v.span))
         ELSE res))

\* The FnCall arm for a Builtin value.
CallBuiltinValue(e, name, env, s, cx) ==
    tee(EvalAll(e.args, <<>>, env, s, cx), LAMBDA oargs :
    With(CallBuiltin(name, oargs.v.items, oargs.s), LAMBDA res :
         IF res.v.t = "Exception"
         THEN Ret(Exception(res.v.message, e.span, <<>>),
                  Log(res.s, "raise", res.v.message, e.span))
         ELSE res))

\* The `match expr` of VM::eval_expr.
eval_arm(e, env, s, cx) ==
    CASE e.t = "Void" -> Panic("unreachable", s)
      [] e.t \in {"BinaryLiteral", "HexLiteral"} -> Panic("panic", s)
      [] e.t = "Index" -> Index(e, env, s, cx)
      [] e.t = "True" -> Ret(Bool(TRUE), s)
      [] e.t = "False" -> Ret(Bool(FALSE), s)
      [] e.t \in {"IntegerLiteral", "FloatLiteral"} ->
           Ret(ParseNumber(Slice(cx.source, e.span.start, e.span.end)), s)
      [] e.t = "Identifier" ->
           With(Env_get(s.envs, env, Slice(cx.source, e.span.start, e.span.end)), LAMBDA got :
                IF got.some THEN Ret(got.v, s) ELSE fail("'{}' is not defined", e.span, s))
      [] e.t = "StringLiteral" ->
           \* &source[start + 1..end - 1] panics when the range is reversed
           IF e.span.start + 1 > e.span.end - 1 THEN Panic("slice index", s)
           ELSE Ret(String(Slice(cx.source, e.span.start + 1, e.span.end - 1)), s)
      [] e.t = "UnaryOp" -> Unary(e, env, s, cx)
      [] e.t = "BinaryOp" ->
           IF e.kind = "And" THEN ShortCircuit(e, FALSE, env, s, cx)
           ELSE IF e.kind = "Or" THEN ShortCircuit(e, TRUE, env, s, cx)
           ELSE Binary(e, env, s, cx)
      [] e.t = "Paren" -> eval_expr(e.value, env, s, cx)
      [] e.t = "ArrayLiteral" ->
           tee(EvalAll(e.values, <<>>, env, s, cx), LAMBDA items :
               NewArray(items.s, items.v.items))
      [] e.t = "FnCall" ->
           tee(eval_expr(e.calle, env, s, cx), LAMBDA v :
               IF v.v.t = "Procedure" THEN CallProcedure(e, v.v.proc, env, v.s, cx)
               ELSE IF v.v.t = "Builtin" THEN CallBuiltinValue(e, v.v.name, env, v.s, cx)
               ELSE fail("{} is not a function", ExprSpan(e.calle), v.s))

\* VM::eval_expr
eval_expr(e, env, s, cx) == eval_arm(e, env, Log(s, "expr", e.t, ExprSpan(e)), cx)

\* What one statement does to eval_scope: `Returns(v, s)` when the statement
\* makes eval_scope return v, `Continues(s)` when the next statement runs.
Returns(v, s) == [done |-> TRUE, v |-> v, s |-> s]

Continues(s) == [done |-> FALSE, v |-> Void, s |-> s]

\* `return value` of eval_scope, for the value and state an evaluation gave.
Return(r) == Returns(r.v, r.s)

\* tee!(..) in eval_scope: a value that escapes is what eval_scope returns.
tee_stmt(r, cont(_)) == IF Escapes(r.v) THEN Return(r) ELSE cont(r)

\* `let Value::Void = scope_val else { return scope_val }` after
\* `tee!(self.eval_scope(..))`: only Void lets the enclosing scope go on.
Bubbles(v) == v.t # "Void"

\* `let scope_val = tee!(self.eval_scope(..)); let Value::Void = scope_val
\* else { return scope_val };`
let_Void(scope_val, cont(_)) ==
    IF Escapes(scope_val.v) \/ Bubbles(scope_val.v) THEN Return(scope_val)
    ELSE cont(scope_val)

Tick(s) == [s EXCEPT !.steps = s.steps + 1]

\* Stmt::VarAssign with a name that no environment binds created in the
\* global environment instead of `env`.
Assign_InGlobal(name, found, env, v) ==
    Continues(Env_insert(v.s, IF found # 0 THEN found ELSE 1, name, v.v))

\* The end of Stmt::VarAssign: the binding is replaced in the environment
\* `found` that has it, or made in `env` when none has (found = 0).
Assign(name, found, env, v) ==
    Continues(Env_insert(v.s, IF found # 0 THEN found ELSE env, name, v.v))

\* Stmt::VarAssign without its `tee!`: whatever the value expression gave is
\* bound, an Exception included, and the next statement runs.
ExecVarAssign_NoTee(stmt, env, s, cx) ==
    With(eval_expr(stmt.value, env, s, cx), LAMBDA v :
        IF v.v.t \in {"Abort", "Diverge"} THEN Return(v)
        ELSE Assign(Slice(cx.source, stmt.name.start, stmt.name.end),
                    Binder(v.s.envs, env, Slice(cx.source, stmt.name.start, stmt.name.end)),
                    env, v))

\* Stmt::VarAssign
ExecVarAssign(stmt, env, s, cx) ==
    tee_stmt(eval_expr(stmt.value, env, s, cx), LAMBDA v :
        Assign(Slice(cx.source, stmt.name.start, stmt.name.end),
               Binder(v.s.envs, env, Slice(cx.source, stmt.name.start, stmt.name.end)),
               env, v))

\* The end of Stmt::IndexAssign, with the array `ref` mutably borrowed in
\* `held` and `at` the slot written.
StoreAt(stmt, ref, at, held, env, cx) ==
    IF at.panic THEN Returns(Abort("attempt to subtract with overflow"), held)
    ELSE IF at.far \/ at.slot >= Len(held.heap[ref].items)
    THEN Return(fail("index is out of bounds", StmtSpan(stmt), ReleaseMut(held, ref)))
    ELSE With(eval_expr(stmt.value, env, held, cx), LAMBDA v :
         IF v.v.t = "Abort" \/ v.v.t = "Diverge" THEN Return(v)
         ELSE IF Escapes(v.v) THEN Returns(v.v, ReleaseMut(v.s, ref))
         ELSE Continues(Log(ReleaseMut([v.s EXCEPT !.heap[ref].items[at.slot + 1] = v.v],
                                       ref),
                            "write", "array", NoSpan)))

\* Stmt::IndexAssign
ExecIndexAssign(stmt, env, s, cx) ==
    tee_stmt(eval_expr(stmt.root, env, s, cx), LAMBDA rootv :
    IF rootv.v.t # "Array"
    THEN Return(fail("{} is not an array", ExprSpan(stmt.root), rootv.s))
    ELSE tee_stmt(eval_expr(stmt.index, env, rootv.s, cx), LAMBDA indexv :
         IF indexv.v.t # "Number"
         THEN Return(fail("{} is not a number", ExprSpan(stmt.index), indexv.s))
         ELSE IF ~CanBorrowMut(indexv.s, rootv.v.ref)
         THEN Returns(Abort("already borrowed"), indexv.s)
         ELSE StoreAt(stmt, rootv.v.ref, ItemSlot(indexv.v, cx.overflow_checks),
                      BorrowMut(indexv.s, rootv.v.ref), env, cx)))

\* The ELSE IF arms and the ELSE arm of Stmt::If, from arm i on.
ExecElseIfs(stmt, i, env, s, cx) ==
    IF i > Len(stmt.else_ifs)
    THEN (IF stmt.els.some
          THEN let_Void(eval_scope(stmt.els.scope, env, s, cx), LAMBDA scope_val :
                        Continues(scope_val.s))
          ELSE Continues(s))
    ELSE tee_stmt(eval_expr(stmt.else_ifs[i].cond, env, s, cx), LAMBDA c :
         IF c.v.t # "Bool" THEN Returns(Abort("panic"), c.s)
         ELSE IF c.v.b
         THEN let_Void(eval_scope(stmt.else_ifs[i].scope, env, c.s, cx), LAMBDA scope_val :
                       Continues(scope_val.s))
         ELSE ExecElseIfs(stmt, i + 1, env, c.s, cx))

\* Stmt::If
ExecIf(stmt, env, s, cx) ==
    tee_stmt(eval_expr(stmt.cond, env, s, cx), LAMBDA c1 :
    IF c1.v.t # "Bool"
    THEN Return(fail("{} is not a boolean", ExprSpan(stmt.cond), c1.s))
    ELSE IF c1.v.b
    THEN let_Void(eval_scope(stmt.scope, env, c1.s, cx), LAMBDA scope_val :
                  Continues(scope_val.s))
    ELSE ExecElseIfs(stmt, 1, env, c1.s, cx))

\* `while n > 0 { .. n -= 1 }` of Stmt::RepeatN
ExecRepeatN(stmt, n, env, s, cx) ==
    IF n = 0 THEN Continues(s)
    ELSE IF s.steps >= MaxSteps THEN Returns(Diverge, s)
    ELSE let_Void(eval_scope(stmt.scope, env, Tick(s), cx), LAMBDA val :
                  ExecRepeatN(stmt, n - 1, env, val.s, cx))

\* Stmt::RepeatN; -1 stands for the u32::MAX that `inf as u32` gives.
ExecRepeatNStmt(stmt, env, s, cx) ==
    tee_stmt(eval_expr(stmt.n, env, s, cx), LAMBDA count :
    IF count.v.t # "Number"
    THEN Return(fail("{} is not a number", ExprSpan(stmt.n), count.s))
    ELSE IF NumLess(count.v, Int2Number(0))
    THEN Return(fail("{} is not positive", ExprSpan(stmt.n), count.s))
    ELSE IF NotIntegral(count.v)
    THEN Return(fail("{} is not an integer", ExprSpan(stmt.n), count.s))
    ELSE ExecRepeatN(stmt, IF IsFinite(count.v) THEN Trunc(count.v) ELSE -1,
                     env, count.s, cx))

\* Stmt::RepeatUntil as a loop that runs its body before it evaluates the
\* condition.
ExecRepeatUntil_BodyFirst(stmt, env, s, cx) ==
    IF s.steps >= MaxSteps THEN Returns(Diverge, s)
    ELSE let_Void(eval_scope(stmt.scope, env, Tick(s), cx), LAMBDA body :
         tee_stmt(eval_expr(stmt.cond, env, body.s, cx), LAMBDA val :
         IF val.v.t # "Bool"
         THEN Return(fail("{} is not a boolean", ExprSpan(stmt.cond), val.s))
         ELSE IF val.v.b THEN Continues(val.s)
         ELSE ExecRepeatUntil(stmt, env, val.s, cx)))

\* Stmt::RepeatUntil
ExecRepeatUntil(stmt, env, s, cx) ==
    IF s.steps >= MaxSteps THEN Returns(Diverge, s)
    ELSE tee_stmt(eval_expr(stmt.cond, env, Tick(s), cx), LAMBDA val :
         IF val.v.t # "Bool"
         THEN Return(fail("{} is not a boolean", ExprSpan(stmt.cond), val.s))
         ELSE IF val.v.b THEN Continues(val.s)
         ELSE let_Void(eval_scope(stmt.scope, env, val.s, cx), LAMBDA body :
                       ExecRepeatUntil(stmt, env, body.s, cx)))

\* One iteration of the `loop` of Stmt::For on `arrb`, the state in which
\* the array is borrowed: the borrow is held from before the alias is bound
\* until the end of the iteration.
ExecForItem(stmt, ref, i, len, env, arrb, cx) ==
    IF i >= Len(arrb.heap[ref].items) THEN Continues(Release(arrb, ref))
    ELSE With(eval_scope(stmt.scope, env,
                         Env_insert(arrb, env,
                                    Slice(cx.source, stmt.alias.start, stmt.alias.end),
                                    arrb.heap[ref].items[i + 1]),
                         cx), LAMBDA scope_val :
         IF scope_val.v.t = "Abort" \/ scope_val.v.t = "Diverge" THEN Return(scope_val)
         ELSE IF Escapes(scope_val.v) \/ Bubbles(scope_val.v)
         THEN Returns(scope_val.v, Release(scope_val.s, ref))
         ELSE ExecFor(stmt, ref, i + 1, len, env, Release(scope_val.s, ref), cx))

\* The `loop` of Stmt::For.
ExecFor(stmt, ref, i, len, env, s, cx) ==
    IF i >= len THEN Continues(s)
    ELSE IF s.steps >= MaxSteps THEN Returns(Diverge, s)
    ELSE IF ~CanBorrow(s, ref) THEN Returns(Abort("already mutably borrowed"), s)
    ELSE ExecForItem(stmt, ref, i, len, env, Borrow(Tick(s), ref), cx)

\* Stmt::For
ExecForStmt(stmt, env, s, cx) ==
    tee_stmt(eval_expr(stmt.array, env, s, cx), LAMBDA arr :
    IF arr.v.t # "Array"
    THEN Return(fail("{} is not an array", ExprSpan(stmt.array), arr.s))
    ELSE IF ~CanBorrow(arr.s, arr.v.ref)
    THEN Returns(Abort("already mutably borrowed"), arr.s)
    ELSE ExecFor(stmt, arr.v.ref, 0, Len(arr.s.heap[arr.v.ref].items), env, arr.s, cx))

\* One arm of the `match stmt` of VM::eval_scope.
Exec(stmt, env, s, cx) ==
    CASE stmt.t = "Expr" ->
           tee_stmt(eval_expr(stmt.e, env, s, cx), LAMBDA v : Continues(v.s))
      [] stmt.t = "VarAssign" -> ExecVarAssign(stmt, env, s, cx)
      [] stmt.t = "Procedure" ->
           Continues(Env_insert(s, env, Slice(cx.source, stmt.name.start, stmt.name.end),
                                Procedure(stmt)))
      [] stmt.t = "IndexAssign" -> ExecIndexAssign(stmt, env, s, cx)
      [] stmt.t = "Return" -> Return(eval_expr(stmt.value, env, s, cx))
      [] stmt.t = "If" -> ExecIf(stmt, env, s, cx)
      [] stmt.t = "RepeatN" -> ExecRepeatNStmt(stmt, env, s, cx)
      [] stmt.t = "RepeatUntil" -> ExecRepeatUntil(stmt, env, s, cx)
      [] stmt.t = "For" -> ExecForStmt(stmt, env, s, cx)

\* `for stmt in scope.iter()` of VM::eval_scope, from statement i on.
ExecFrom(scope, i, env, s, cx) ==
    IF i > Len(scope) THEN Ret(Void, s)
    ELSE IF s.steps >= MaxSteps THEN Ret(Diverge, s)
    ELSE With(Exec(scope[i], env, Log(Tick(s), "stmt", scope[i].t, NoSpan), cx), LAMBDA r :
              IF r.done THEN Ret(r.v, r.s) ELSE ExecFrom(scope, i + 1, env, r.s, cx))

\* VM::eval_scope
eval_scope(scope, env, s, cx) == ExecFrom(scope, 1, env, s, cx)

(***************************************************************************)
(* Programs the model is run on                                            *)
(***************************************************************************)

\* C4: the third end-to-end scenario of the specification.
ProcedureOnOneLine ==
    <<"P", "R", "O", "C", "E", "D", "U", "R", "E", " ", "F", "(", ")", " ", "{", " ",
      "R", "E", "T", "U", "R", "N", " ", "5", " ", "}", "\n",
      "D", "I", "S", "P", "L", "A", "Y", "(", "F", "(", ")", " ", "+", " ", "1", ")">>

(***************************************************************************)
(* The expressions handed to parse_expr(0): two binary operators over      *)
(* three operands, and a prefix operator before a product, an index and a  *)
(* call.                                                                   *)
(***************************************************************************)

BinaryOps ==
    {"Add", "Sub", "Mul", "Div", "Mod", "Equal", "NotEqual", "Less", "LessEqual",
     "Greater", "GreaterEqual", "And", "Or"}

PrefixOps == {"Pos", "Neg", "Not"}

\* The spelling of an operator in the source text.
OpText(kind) ==
    CASE kind = "Add" -> <<"+">>
      [] kind = "Sub" -> <<"-">>
      [] kind = "Mul" -> <<"*">>
      [] kind = "Div" -> <<"/">>
      [] kind = "Mod" -> <<"%">>
      [] kind = "Equal" -> <<"=">>
      [] kind = "NotEqual" -> <<"!", "=">>
      [] kind = "Less" -> <<"<">>
      [] kind = "LessEqual" -> <<"<", "=">>
      [] kind = "Greater" -> <<">">>
      [] kind = "GreaterEqual" -> <<">", "=">>
      [] kind = "And" -> <<"A", "N", "D">>
      [] kind = "Or" -> <<"O", "R">>
      [] kind = "Pos" -> <<"+">>
      [] kind = "Neg" -> <<"-">>
      [] kind = "Not" -> <<"N", "O", "T", " ">>

\* The token an operator is lexed to, and through it its binding power.
OpToken(kind) ==
    CASE kind = "Mod" -> "Keyword(Mod)"
      [] kind = "And" -> "Keyword(And)"
      [] kind = "Or" -> "Keyword(Or)"
      [] OTHER -> kind

OpLbp(kind) == lbp(OpToken(kind))

\* `a op1 b op2 c`
Chain(op1, op2) ==
    <<"a", " ">> \o OpText(op1) \o <<" ", "b", " ">> \o OpText(op2) \o <<" ", "c">>

\* `1 - 2 - 3`
OneTwoThree == <<"1", " ", "-", " ", "2", " ", "-", " ", "3">>

\* `-a * b`, `-a[i]` and `-f()` for each prefix operator
PrefixProduct(pre) == OpText(pre) \o <<"a", " ", "*", " ", "b">>

PrefixIndex(pre) == OpText(pre) \o <<"a", "[", "i", "]">>

PrefixCall(pre) == OpText(pre) \o <<"f", "(", ")">>

Expressions ==
    {Chain(op1, op2) : op1 \in BinaryOps, op2 \in BinaryOps}
        \cup {OneTwoThree}
        \cup {PrefixProduct(pre) : pre \in PrefixOps}
        \cup {PrefixIndex(pre) : pre \in PrefixOps}
        \cup {PrefixCall(pre) : pre \in PrefixOps}

\* The grouping of a parsed expression, written out with one pair of
\* parentheses around every operator application, index and call.
RECURSIVE Grouped(_, _)
RECURSIVE GroupedAll(_, _)
GroupedAll(exprs, buffer) ==
    IF exprs = <<>> THEN <<>>
    ELSE Grouped(Head(exprs), buffer) \o <<",">> \o GroupedAll(Tail(exprs), buffer)

Grouped(e, buffer) ==
    CASE e.t = "BinaryOp" ->
           <<"(">> \o Grouped(e.lhs, buffer) \o <<e.kind>> \o Grouped(e.rhs, buffer) \o <<")">>
      [] e.t = "UnaryOp" -> <<"(", e.kind>> \o Grouped(e.value, buffer) \o <<")">>
      [] e.t = "Index" ->
           <<"(">> \o Grouped(e.value, buffer) \o <<"[">> \o Grouped(e.index, buffer)
               \o <<"]", ")">>
      [] e.t = "FnCall" ->
           <<"(">> \o Grouped(e.calle, buffer) \o <<"(">> \o GroupedAll(e.args, buffer)
               \o <<")", ")">>
      [] e.t = "ArrayLiteral" -> <<"[">> \o GroupedAll(e.values, buffer) \o <<"]">>
      [] e.t = "Paren" -> <<"{">> \o Grouped(e.value, buffer) \o <<"}">>
      [] e.t = "True" -> <<"TRUE">>
      [] e.t = "False" -> <<"FALSE">>
      [] OTHER -> Slice(buffer, e.span.start, e.span.end)

\* The same program with the procedure body on lines of its own.
ProcedureOnThreeLines ==
    <<"P", "R", "O", "C", "E", "D", "U", "R", "E", " ", "F", "(", ")", " ", "{", "\n", " ",
      "R", "E", "T", "U", "R", "N", " ", "5", "\n", "}", "\n", "D", "I", "S", "P", "L",
      "A", "Y", "(", "F", "(", ")", " ", "+", " ", "1", ")">>

(***************************************************************************)
(* Two statements and what separates them: the first statement is a simple *)
(* one or a block statement, the second may be missing.                    *)
(***************************************************************************)

SimpleStatements ==
    {<<"x", " ", "<", "-", " ", "1">>,
     <<"D", "I", "S", "P", "L", "A", "Y", "(", "1", ")">>,
     <<"x", "[", "1", "]", " ", "<", "-", " ", "2">>,
     <<"1", " ", "+", " ", "2">>}

BlockStatements ==
    {<<"I", "F", " ", "(", "T", "R", "U", "E", ")", " ", "{", "\n", "}">>,
     <<"I", "F", " ", "(", "F", "A", "L", "S", "E", ")", " ", "{", "\n", "}", " ", "E", "L",
      "S", "E", " ", "{", "\n", "}">>,
     <<"I", "F", " ", "(", "F", "A", "L", "S", "E", ")", " ", "{", "\n", "}", " ", "E", "L",
      "S", "E", " ", "I", "F", " ", "(", "T", "R", "U", "E", ")", " ", "{", "\n", "}">>,
     <<"R", "E", "P", "E", "A", "T", " ", "2", " ", "T", "I", "M", "E", "S", " ", "{", "\n",
      "}">>,
     <<"R", "E", "P", "E", "A", "T", " ", "U", "N", "T", "I", "L", " ", "(", "T", "R", "U",
      "E", ")", " ", "{", "\n", "}">>,
     <<"F", "O", "R", " ", "E", "A", "C", "H", " ", "v", " ", "I", "N", " ", "[", "1", "]",
      " ", "{", "\n", "}">>,
     <<"P", "R", "O", "C", "E", "D", "U", "R", "E", " ", "F", "(", ")", " ", "{", "\n", "}">>}

SameLine == {<<" ">>, <<"\t">>}

NextLine == {<<"\n">>, <<" ", "\n", " ">>}

SecondStatements == {<<"y", " ", "<", "-", " ", "2">>, <<"D", "I", "S", "P", "L", "A", "Y", "(", "2", ")">>}

TwoStatements(first, separator, second) == first \o separator \o second

TerminatorPrograms ==
    {TwoStatements(first, separator, second) :
        first \in SimpleStatements \cup BlockStatements,
        separator \in SameLine \cup NextLine,
        second \in SecondStatements \cup {<<>>}}

(***************************************************************************)
(* Programs that are not well formed, each with a DISPLAY call that shows  *)
(* if the program is evaluated.                                            *)
(***************************************************************************)

RejectedPrograms ==
    {<<"D", "I", "S", "P", "L", "A", "Y", "(", "1", ")", "\n", "x", " ", "<", "-", " ", ")">>,
     <<"D", "I", "S", "P", "L", "A", "Y", "(", "1", ")", "\n", "I", "F", " ", "T", "R", "U",
      "E", " ", "{", "\n", "}">>,
     <<"D", "I", "S", "P", "L", "A", "Y", "(", "1", ")", "\n", "D", "I", "S", "P", "L", "A",
      "Y", "(", "2">>,
     <<"D", "I", "S", "P", "L", "A", "Y", "(", "1", ")", " ", "D", "I", "S", "P", "L", "A",
      "Y", "(", "2", ")">>,
     <<"D", "I", "S", "P", "L", "A", "Y", "(", "1", ")", "\n", "}", "\n", "D", "I", "S",
      "P", "L", "A", "Y", "(", "2", ")">>,
     <<"D", "I", "S", "P", "L", "A", "Y", "(", "1", ")", "\n", "R", "E", "P", "E", "A", "T",
      " ", "2", " ", "{", "\n", "}">>}

(***************************************************************************)
(* Programs that raise: an expression that fails, put at each place the    *)
(* evaluator evaluates a sub-expression or a nested scope.  Every place is *)
(* followed by more to evaluate: a call of F, which displays 7, or a       *)
(* DISPLAY(8).                                                             *)
(***************************************************************************)

RaisingPrelude ==
    <<"P", "R", "O", "C", "E", "D", "U", "R", "E", " ", "F", "(", ")", " ", "{", "\n", " ",
      "D", "I", "S", "P", "L", "A", "Y", "(", "7", ")", "\n", " ", "R", "E", "T", "U", "R",
      "N", " ", "1", "\n", "}", "\n", "a", " ", "<", "-", " ", "[", "1", ",", " ", "2",
      "]", "\n">>

\* An undefined name, a Bool operand of `+`, an index out of range, a call
\* of a number, a number under NOT, a built-in that fails and a call with
\* the wrong number of arguments.
Raisers ==
    {<<"u">>,
     <<"1", " ", "+", " ", "T", "R", "U", "E">>,
     <<"a", "[", "9", "]">>,
     <<"1", "(", ")">>,
     <<"N", "O", "T", " ", "1">>,
     <<"A", "P", "P", "E", "N", "D", "(", "1", ",", " ", "2", ")">>,
     <<"F", "(", "1", ")">>}

\* The places, each as the text before and after the failing expression.
RaisingPlaces ==
    {<<<<"x", " ", "<", "-", " ">>,
       <<"\n", "D", "I", "S", "P", "L", "A", "Y", "(", "8", ")">>>>,
     <<<<>>,
       <<"\n", "D", "I", "S", "P", "L", "A", "Y", "(", "8", ")">>>>,
     <<<<"x", " ", "<", "-", " ">>,
       <<" ", "+", " ", "F", "(", ")", "\n", "D", "I", "S", "P", "L", "A", "Y", "(", "8", ")">>>>,
     <<<<"x", " ", "<", "-", " ", "F", "(", ")", " ", "+", " ">>,
       <<"\n", "D", "I", "S", "P", "L", "A", "Y", "(", "8", ")">>>>,
     <<<<"x", " ", "<", "-", " ">>,
       <<" ", "=", " ", "F", "(", ")", "\n", "D", "I", "S", "P", "L", "A", "Y", "(", "8", ")">>>>,
     <<<<"x", " ", "<", "-", " ", "F", "(", ")", " ", "=", " ">>,
       <<"\n", "D", "I", "S", "P", "L", "A", "Y", "(", "8", ")">>>>,
     <<<<"x", " ", "<", "-", " ">>,
       <<" ", "A", "N", "D", " ", "F", "(", ")", "\n", "D", "I", "S", "P", "L", "A", "Y", "(",
      "8", ")">>>>,
     <<<<"x", " ", "<", "-", " ", "T", "R", "U", "E", " ", "A", "N", "D", " ">>,
       <<"\n", "D", "I", "S", "P", "L", "A", "Y", "(", "8", ")">>>>,
     <<<<"x", " ", "<", "-", " ">>,
       <<" ", "O", "R", " ", "F", "(", ")", "\n", "D", "I", "S", "P", "L", "A", "Y", "(", "8",
      ")">>>>,
     <<<<"x", " ", "<", "-", " ", "F", "A", "L", "S", "E", " ", "O", "R", " ">>,
       <<"\n", "D", "I", "S", "P", "L", "A", "Y", "(", "8", ")">>>>,
     <<<<"x", " ", "<", "-", " ", "N", "O", "T", " ">>,
       <<"\n", "D", "I", "S", "P", "L", "A", "Y", "(", "8", ")">>>>,
     <<<<"x", " ", "<", "-", " ", "-">>,
       <<"\n", "D", "I", "S", "P", "L", "A", "Y", "(", "8", ")">>>>,
     <<<<"x", " ", "<", "-", " ", "(">>,
       <<")", " ", "+", " ", "F", "(", ")", "\n", "D", "I", "S", "P", "L", "A", "Y", "(", "8",
      ")">>>>,
     <<<<"x", " ", "<", "-", " ", "[">>,
       <<",", " ", "F", "(", ")", "]", "\n", "D", "I", "S", "P", "L", "A", "Y", "(", "8", ")">>>>,
     <<<<"x", " ", "<", "-", " ", "[", "F", "(", ")", ",", " ">>,
       <<"]", "\n", "D", "I", "S", "P", "L", "A", "Y", "(", "8", ")">>>>,
     <<<<"x", " ", "<", "-", " ">>,
       <<"[", "F", "(", ")", "]", "\n", "D", "I", "S", "P", "L", "A", "Y", "(", "8", ")">>>>,
     <<<<"x", " ", "<", "-", " ", "a", "[">>,
       <<"]", "\n", "D", "I", "S", "P", "L", "A", "Y", "(", "8", ")">>>>,
     <<<<"x", " ", "<", "-", " ">>,
       <<"(", "F", "(", ")", ")", "\n", "D", "I", "S", "P", "L", "A", "Y", "(", "8", ")">>>>,
     <<<<"D", "I", "S", "P", "L", "A", "Y", "(">>,
       <<",", " ", "F", "(", ")", ")", "\n", "D", "I", "S", "P", "L", "A", "Y", "(", "8", ")">>>>,
     <<<<"x", " ", "<", "-", " ", "L", "E", "N", "G", "T", "H", "(">>,
       <<")", "\n", "D", "I", "S", "P", "L", "A", "Y", "(", "8", ")">>>>,
     <<<<"a", "[", "1", "]", " ", "<", "-", " ">>,
       <<"\n", "D", "I", "S", "P", "L", "A", "Y", "(", "8", ")">>>>,
     <<<<"a", "[">>,
       <<"]", " ", "<", "-", " ", "F", "(", ")", "\n", "D", "I", "S", "P", "L", "A", "Y", "(",
      "8", ")">>>>,
     <<<<"I", "F", " ", "(">>,
       <<")", " ", "{", "\n", " ", "D", "I", "S", "P", "L", "A", "Y", "(", "8", ")", "\n",
      "}", "\n", "D", "I", "S", "P", "L", "A", "Y", "(", "8", ")">>>>,
     <<<<"I", "F", " ", "(", "T", "R", "U", "E", ")", " ", "{", "\n", " ", "x", " ", "<", "-",
      " ">>,
       <<"\n", " ", "D", "I", "S", "P", "L", "A", "Y", "(", "8", ")", "\n", "}", "\n", "D",
      "I", "S", "P", "L", "A", "Y", "(", "8", ")">>>>,
     <<<<"I", "F", " ", "(", "F", "A", "L", "S", "E", ")", " ", "{", "\n", "}", " ", "E", "L",
      "S", "E", " ", "I", "F", " ", "(">>,
       <<")", " ", "{", "\n", " ", "D", "I", "S", "P", "L", "A", "Y", "(", "8", ")", "\n",
      "}", "\n", "D", "I", "S", "P", "L", "A", "Y", "(", "8", ")">>>>,
     <<<<"I", "F", " ", "(", "F", "A", "L", "S", "E", ")", " ", "{", "\n", "}", " ", "E", "L",
      "S", "E", " ", "I", "F", " ", "(", "T", "R", "U", "E", ")", " ", "{", "\n", " ", "x",
      " ", "<", "-", " ">>,
       <<"\n", " ", "D", "I", "S", "P", "L", "A", "Y", "(", "8", ")", "\n", "}", "\n", "D",
      "I", "S", "P", "L", "A", "Y", "(", "8", ")">>>>,
     <<<<"I", "F", " ", "(", "F", "A", "L", "S", "E", ")", " ", "{", "\n", "}", " ", "E", "L",
      "S", "E", " ", "{", "\n", " ", "x", " ", "<", "-", " ">>,
       <<"\n", " ", "D", "I", "S", "P", "L", "A", "Y", "(", "8", ")", "\n", "}", "\n", "D",
      "I", "S", "P", "L", "A", "Y", "(", "8", ")">>>>,
     <<<<"R", "E", "P", "E", "A", "T", " ">>,
       <<" ", "T", "I", "M", "E", "S", " ", "{", "\n", " ", "D", "I", "S", "P", "L", "A", "Y",
      "(", "8", ")", "\n", "}", "\n", "D", "I", "S", "P", "L", "A", "Y", "(", "8", ")">>>>,
     <<<<"R", "E", "P", "E", "A", "T", " ", "2", " ", "T", "I", "M", "E", "S", " ", "{", "\n",
      " ", "x", " ", "<", "-", " ">>,
       <<"\n", " ", "D", "I", "S", "P", "L", "A", "Y", "(", "8", ")", "\n", "}", "\n", "D",
      "I", "S", "P", "L", "A", "Y", "(", "8", ")">>>>,
     <<<<"R", "E", "P", "E", "A", "T", " ", "U", "N", "T", "I", "L", " ", "(">>,
       <<")", " ", "{", "\n", " ", "D", "I", "S", "P", "L", "A", "Y", "(", "8", ")", "\n",
      "}", "\n", "D", "I", "S", "P", "L", "A", "Y", "(", "8", ")">>>>,
     <<<<"R", "E", "P", "E", "A", "T", " ", "U", "N", "T", "I", "L", " ", "(", "F", "A", "L",
      "S", "E", ")", " ", "{", "\n", " ", "x", " ", "<", "-", " ">>,
       <<"\n", " ", "D", "I", "S", "P", "L", "A", "Y", "(", "8", ")", "\n", "}", "\n", "D",
      "I", "S", "P", "L", "A", "Y", "(", "8", ")">>>>,
     <<<<"F", "O", "R", " ", "E", "A", "C", "H", " ", "v", " ", "I", "N", " ">>,
       <<" ", "{", "\n", " ", "D", "I", "S", "P", "L", "A", "Y", "(", "8", ")", "\n", "}",
      "\n", "D", "I", "S", "P", "L", "A", "Y", "(", "8", ")">>>>,
     <<<<"F", "O", "R", " ", "E", "A", "C", "H", " ", "v", " ", "I", "N", " ", "a", " ", "{",
      "\n", " ", "x", " ", "<", "-", " ">>,
       <<"\n", " ", "D", "I", "S", "P", "L", "A", "Y", "(", "8", ")", "\n", "}", "\n", "D",
      "I", "S", "P", "L", "A", "Y", "(", "8", ")">>>>,
     <<<<"P", "R", "O", "C", "E", "D", "U", "R", "E", " ", "P", "(", ")", " ", "{", "\n", " ",
      "x", " ", "<", "-", " ">>,
       <<"\n", " ", "D", "I", "S", "P", "L", "A", "Y", "(", "8", ")", "\n", "}", "\n", "x",
      " ", "<", "-", " ", "P", "(", ")", " ", "+", " ", "F", "(", ")", "\n", "D", "I", "S",
      "P", "L", "A", "Y", "(", "8", ")">>>>,
     <<<<"P", "R", "O", "C", "E", "D", "U", "R", "E", " ", "P", "(", ")", " ", "{", "\n", " ",
      "R", "E", "T", "U", "R", "N", " ">>,
       <<"\n", "}", "\n", "x", " ", "<", "-", " ", "[", "P", "(", ")", ",", " ", "F", "(",
      ")", "]", "\n", "D", "I", "S", "P", "L", "A", "Y", "(", "8", ")">>>>,
     <<<<"P", "R", "O", "C", "E", "D", "U", "R", "E", " ", "P", "(", ")", " ", "{", "\n", " ",
      "I", "F", " ", "(", "T", "R", "U", "E", ")", " ", "{", "\n", " ", "R", "E", "P", "E",
      "A", "T", " ", "1", " ", "T", "I", "M", "E", "S", " ", "{", "\n", " ", "x", " ", "<",
      "-", " ">>,
       <<"\n", " ", "}", "\n", " ", "}", "\n", " ", "D", "I", "S", "P", "L", "A", "Y", "(",
      "8", ")", "\n", "}", "\n", "P", "R", "O", "C", "E", "D", "U", "R", "E", " ", "Q",
      "(", ")", " ", "{", "\n", " ", "P", "(", ")", "\n", " ", "D", "I", "S", "P", "L",
      "A", "Y", "(", "8", ")", "\n", "}", "\n", "Q", "(", ")", "\n", "D", "I", "S", "P",
      "L", "A", "Y", "(", "8", ")">>>>}

RaisingProgram(place, raiser) == RaisingPrelude \o place[1] \o raiser \o place[2]

RaisingPrograms == {RaisingProgram(place, raiser) : place \in RaisingPlaces, raiser \in Raisers}
(***************************************************************************)
(* AND and OR: a left operand, the operator and a right operand whose      *)
(* evaluation shows (F displays 7) or fails.                               *)
(***************************************************************************)

ShortCircuitPrelude ==
    <<"P", "R", "O", "C", "E", "D", "U", "R", "E", " ", "F", "(", ")", " ", "{", "\n", " ",
      "D", "I", "S", "P", "L", "A", "Y", "(", "7", ")", "\n", " ", "R", "E", "T", "U", "R",
      "N", " ", "T", "R", "U", "E", "\n", "}", "\n">>

\* Left operands, each with the Bool it evaluates to.
LeftOperands ==
    {<<<<"T", "R", "U", "E">>, TRUE>>,
     <<<<"F", "A", "L", "S", "E">>, FALSE>>,
     <<<<"1", " ", "=", " ", "1">>, TRUE>>,
     <<<<"1", " ", "=", " ", "2">>, FALSE>>,
     <<<<"N", "O", "T", " ", "T", "R", "U", "E">>, FALSE>>,
     <<<<"2", " ", ">", " ", "1">>, TRUE>>}

RightOperands ==
    {<<"F", "(", ")">>,
     <<"u">>,
     <<"1">>,
     <<"1", "(", ")">>,
     <<"N", "O", "T", " ", "F", "(", ")">>,
     <<"T", "R", "U", "E">>,
     <<"F", "A", "L", "S", "E">>}

\* `x <- left op right` and the DISPLAY of x
ShortCircuitProgram(left, op, right) ==
    ShortCircuitPrelude \o <<"x", " ", "<", "-", " ">> \o left \o <<" ">> \o OpText(op) \o <<" ">> \o right
        \o <<"\n", "D", "I", "S", "P", "L", "A", "Y", "(", "x", ")">>

\* Where the right operand starts in that text.
RightOperandStart(left, op) ==
    Len(ShortCircuitPrelude) + 5 + Len(left) + 1 + Len(OpText(op)) + 1

ShortCircuitPrograms ==
    {ShortCircuitProgram(left[1], op, right) :
        left \in LeftOperands, op \in {"And", "Or"}, right \in RightOperands}

(***************************************************************************)
(* Arrays: a literal of 1..MaxLen items 5, 6, 7, .., indexed at every i in *)
(* 0..MaxLen+1, and iterated by a FOR EACH whose body appends to it.       *)
(***************************************************************************)

MaxLen == 3

\* The k-th item of the array literal and its text
Item(k) == k + 4

RECURSIVE ItemsText(_)
ItemsText(len) ==
    IF len = 1 THEN <<ToString(Item(1))>>
    ELSE ItemsText(len - 1) \o <<",", " ", ToString(Item(len))>>

ArrayOfLength(len) == <<"a", " ", "<", "-", " ", "[">> \o ItemsText(len) \o <<"]", "\n">>

\* `DISPLAY(a[i])`
IndexProgram(len, i) ==
    ArrayOfLength(len) \o <<"D", "I", "S", "P", "L", "A", "Y", "(", "a", "[">> \o <<ToString(i)>> \o <<"]", ")">>

IndexPrograms == {IndexProgram(len, i) : len \in 1..MaxLen, i \in 0..(MaxLen + 1)}

\* The loop displays each item it visits and appends it to the array; the
\* length of the array and its first appended item are displayed afterwards.
AppendInLoopProgram(len) ==
    ArrayOfLength(len)
        \o <<"F", "O", "R", " ", "E", "A", "C", "H", " ", "v", " ", "I", "N", " ", "a", " ", "{",
      "\n", " ", "D", "I", "S", "P", "L", "A", "Y", "(", "v", ")", "\n", " ", "A", "P",
      "P", "E", "N", "D", "(", "a", ",", " ", "v", ")", "\n", "}", "\n", "D", "I", "S",
      "P", "L", "A", "Y", "(", "L", "E", "N", "G", "T", "H", "(", "a", ")", ",", " ", "a",
      "[">>
        \o <<ToString(len + 1)>> \o <<"]", ")">>

AppendInLoopPrograms == {AppendInLoopProgram(len) : len \in 1..MaxLen}

(***************************************************************************)
(* RETURN inside a block of a procedure body.  The block displays 1 before *)
(* the RETURN, the procedure displays 9 after the block, and the program   *)
(* displays 2 after the call.                                              *)
(***************************************************************************)

\* The blocks, each as the text before and after its body.
ReturnBlocks ==
    {<<<<"I", "F", " ", "(", "T", "R", "U", "E", ")", " ", "{", "\n">>,
       <<"}", "\n">>>>,
     <<<<"I", "F", " ", "(", "F", "A", "L", "S", "E", ")", " ", "{", "\n", "}", " ", "E", "L",
      "S", "E", " ", "I", "F", " ", "(", "T", "R", "U", "E", ")", " ", "{", "\n">>,
       <<"}", "\n">>>>,
     <<<<"I", "F", " ", "(", "F", "A", "L", "S", "E", ")", " ", "{", "\n", "}", " ", "E", "L",
      "S", "E", " ", "{", "\n">>,
       <<"}", "\n">>>>,
     <<<<"R", "E", "P", "E", "A", "T", " ", "2", " ", "T", "I", "M", "E", "S", " ", "{", "\n">>,
       <<"}", "\n">>>>,
     <<<<"R", "E", "P", "E", "A", "T", " ", "U", "N", "T", "I", "L", " ", "(", "F", "A", "L",
      "S", "E", ")", " ", "{", "\n">>,
       <<"}", "\n">>>>,
     <<<<"F", "O", "R", " ", "E", "A", "C", "H", " ", "v", " ", "I", "N", " ", "[", "1", ",",
      " ", "2", "]", " ", "{", "\n">>,
       <<"}", "\n">>>>,
     <<<<"R", "E", "P", "E", "A", "T", " ", "2", " ", "T", "I", "M", "E", "S", " ", "{", "\n",
      " ", "I", "F", " ", "(", "T", "R", "U", "E", ")", " ", "{", "\n">>,
       <<"}", "\n", "}", "\n">>>>,
     <<<<"F", "O", "R", " ", "E", "A", "C", "H", " ", "v", " ", "I", "N", " ", "[", "1", ",",
      " ", "2", "]", " ", "{", "\n", " ", "R", "E", "P", "E", "A", "T", " ", "1", " ", "T",
      "I", "M", "E", "S", " ", "{", "\n">>,
       <<"}", "\n", "}", "\n">>>>}

\* The returned expressions, each with the value it evaluates to and what
\* its evaluation displays.
ReturnedExpressions ==
    {[text |-> <<"5">>, v |-> Int2Number(5), shows |-> <<>>],
     [text |-> <<"T", "R", "U", "E">>, v |-> Bool(TRUE), shows |-> <<>>],
     [text |-> <<"4", " ", "<", " ", "3">>, v |-> Bool(FALSE), shows |-> <<>>],
     [text |-> <<"G", "(", ")">>, v |-> Void, shows |-> <<>>],
     [text |-> <<"D", "I", "S", "P", "L", "A", "Y", "(", "0", ")">>, v |-> Void, shows |-> <<<<Int2Number(0)>>>>]}

ReturnProgram(block, text) ==
    <<"P", "R", "O", "C", "E", "D", "U", "R", "E", " ", "G", "(", ")", " ", "{", "\n", "}",
      "\n", "P", "R", "O", "C", "E", "D", "U", "R", "E", " ", "F", "(", ")", " ", "{",
      "\n">> \o block[1] \o <<"D", "I", "S", "P", "L", "A", "Y", "(", "1", ")", "\n", "R", "E", "T", "U", "R", "N",
      " ">>
        \o text \o <<"\n">> \o block[2] \o <<"D", "I", "S", "P", "L", "A", "Y", "(", "9", ")", "\n", "R", "E", "T", "U", "R", "N",
      " ", "7", "\n", "}", "\n", "r", " ", "<", "-", " ", "F", "(", ")", "\n", "D", "I",
      "S", "P", "L", "A", "Y", "(", "2", ")">>

ReturnPrograms ==
    {ReturnProgram(block, e.text) : block \in ReturnBlocks, e \in ReturnedExpressions}


(***************************************************************************)
(* Nested calls: P1 calls P2, .., and the innermost procedure evaluates an *)
(* undefined name; P1 is called at the top level.                          *)
(***************************************************************************)

\* The deepest nesting of procedure calls.
MaxDepth == 3

DecimalDigit(k) == <<"0", "1", "2", "3", "4", "5", "6", "7", "8", "9">>[k + 1]

\* `Pk()`
CallOf(k) == <<"P", DecimalDigit(k), "(", ")">>

\* `PROCEDURE Pk() {` and the indentation of its first statement
ProcHead(k) ==
    <<"P", "R", "O", "C", "E", "D", "U", "R", "E", " ">> \o CallOf(k) \o <<" ", "{", "\n", " ">>

\* The definition of Pk in a nest of depth d: it calls the next procedure, or
\* evaluates `u` when it is the innermost.
NestedDef(k, d) ==
    ProcHead(k) \o (IF k < d THEN CallOf(k + 1) ELSE <<"u">>) \o <<"\n", "}", "\n">>

\* The definitions of P1 .. Pk
RECURSIVE NestedDefs(_, _)
NestedDefs(k, d) == IF k = 0 THEN <<>> ELSE NestedDefs(k - 1, d) \o NestedDef(k, d)

NestedRaiseProgram(d) == NestedDefs(d, d) \o CallOf(1)

\* Where Pk is called: at the top level for P1, in the body of P(k-1) otherwise.
CallSite(k, d) ==
    IF k = 1 THEN Span(Len(NestedDefs(d, d)), Len(NestedDefs(d, d)) + 4)
    ELSE Span(Len(NestedDefs(k - 2, d)) + Len(ProcHead(k - 1)),
              Len(NestedDefs(k - 2, d)) + Len(ProcHead(k - 1)) + 4)

\* Where `u` is evaluated.
RaiseSite(d) ==
    Span(Len(NestedDefs(d - 1, d)) + Len(ProcHead(d)),
         Len(NestedDefs(d - 1, d)) + Len(ProcHead(d)) + 1)

NestedRaisePrograms == {NestedRaiseProgram(d) : d \in 1..MaxDepth}

(***************************************************************************)
(* Programs that hand a failing expression to what stores a value: APPEND  *)
(* and INSERT, an element assignment, an array literal, the array of a FOR *)
(* EACH.  The array a is made first.                                       *)
(***************************************************************************)

StoringPrelude == <<"a", " ", "<", "-", " ", "[", "1", "]", "\n">>

StoringStatements ==
    {<<"A", "P", "P", "E", "N", "D", "(", "a", ",", " ", "u", ")">>,
     <<"A", "P", "P", "E", "N", "D", "(", "a", ",", " ", "[", "u", "]", ")">>,
     <<"A", "P", "P", "E", "N", "D", "(", "a", ",", " ", "L", "E", "N", "G", "T", "H", "(",
       "1", ")", ")">>,
     <<"I", "N", "S", "E", "R", "T", "(", "a", ",", " ", "1", ",", " ", "u", ")">>,
     <<"I", "N", "S", "E", "R", "T", "(", "a", ",", " ", "1", ",", " ", "a", "[", "9", "]",
       ")">>,
     <<"a", "[", "1", "]", " ", "<", "-", " ", "L", "E", "N", "G", "T", "H", "(", "1", ")">>,
     <<"b", " ", "<", "-", " ", "[", "a", ",", " ", "[", "u", "]", "]">>,
     <<"F", "O", "R", " ", "E", "A", "C", "H", " ", "v", " ", "I", "N", " ", "[", "1", ",",
       " ", "u", "]", " ", "{", "\n", "}">>}

StoringProgram(stmt) == StoringPrelude \o stmt

StoringPrograms == {StoringProgram(stmt) : stmt \in StoringStatements}

(***************************************************************************)
(* INSERT and REMOVE on an array of each length, the empty one included,   *)
(* at each index around its range; the length of the array is displayed    *)
(* afterwards.                                                             *)
(***************************************************************************)

\* `a <- [..]` for a length that may be 0
ArrayOfLengthOrEmpty(len) ==
    IF len = 0 THEN <<"a", " ", "<", "-", " ", "[", "]", "\n">> ELSE ArrayOfLength(len)

DisplayLength ==
    <<"\n", "D", "I", "S", "P", "L", "A", "Y", "(", "L", "E", "N", "G", "T", "H", "(", "a",
      ")", ")">>

\* The items of the array the programs start with.
ItemsOfLength(len) == [k \in 1..len |-> Int2Number(Item(k))]

\* `INSERT(a, idx, 0)`
InsertProgram(len, idx) ==
    ArrayOfLengthOrEmpty(len)
        \o <<"I", "N", "S", "E", "R", "T", "(", "a", ",", " ", ToString(idx), ",", " ", "0", ")">>
        \o DisplayLength

InsertPrograms == {InsertProgram(len, idx) : len \in 0..MaxLen, idx \in 0..(MaxLen + 2)}

\* The indices handed to REMOVE, each with the fraction n/d it evaluates to
\* (d = 0: the infinity of 1/0 and the NaN of 0/0).
RemoveIndices ==
    {[text |-> <<ToString(i)>>, n |-> i, d |-> 1] : i \in 0..(MaxLen + 1)}
        \cup {[text |-> <<"-", "1">>, n |-> -1, d |-> 1],
              [text |-> <<"2", ".", "0">>, n |-> 2, d |-> 1],
              [text |-> <<"0", ".", "5">>, n |-> 1, d |-> 2],
              [text |-> <<"1", ".", "5">>, n |-> 3, d |-> 2],
              [text |-> <<"2", ".", "2", "5">>, n |-> 9, d |-> 4],
              [text |-> <<"1", " ", "/", " ", "0">>, n |-> 1, d |-> 0],
              [text |-> <<"0", " ", "/", " ", "0">>, n |-> 0, d |-> 0]}

\* `REMOVE(a, idx)`
RemoveProgram(len, text) ==
    ArrayOfLengthOrEmpty(len)
        \o <<"R", "E", "M", "O", "V", "E", "(", "a", ",", " ">> \o text \o <<")">>
        \o DisplayLength

RemovePrograms == {RemoveProgram(len, idx.text) : len \in 0..MaxLen, idx \in RemoveIndices}

(***************************************************************************)
(* Texts handed to the lexer alone: every text of up to MaxText bytes over *)
(* bytes that start or continue the operators, a string, a name, a number  *)
(* and a blank; and the words of the language.                             *)
(***************************************************************************)

\* The longest text over LexAlphabet.
MaxText == 3

LexAlphabet == {"<", "-", "=", "!", ">", "\"", "a", "1", ".", " "}

LexTexts == UNION {[1..n -> LexAlphabet] : n \in 0..MaxText}

\* The reserved words: the all-upper-case spelling, the all-lower-case
\* spelling and the keyword token.
ReservedWords ==
    {[upper |-> <<"N", "O", "T">>,
      lower |-> <<"n", "o", "t">>,
      token |-> "Keyword(Not)"],
     [upper |-> <<"A", "N", "D">>,
      lower |-> <<"a", "n", "d">>,
      token |-> "Keyword(And)"],
     [upper |-> <<"O", "R">>,
      lower |-> <<"o", "r">>,
      token |-> "Keyword(Or)"],
     [upper |-> <<"I", "F">>,
      lower |-> <<"i", "f">>,
      token |-> "Keyword(If)"],
     [upper |-> <<"E", "L", "S", "E">>,
      lower |-> <<"e", "l", "s", "e">>,
      token |-> "Keyword(Else)"],
     [upper |-> <<"R", "E", "P", "E", "A", "T">>,
      lower |-> <<"r", "e", "p", "e", "a", "t">>,
      token |-> "Keyword(Repeat)"],
     [upper |-> <<"T", "I", "M", "E", "S">>,
      lower |-> <<"t", "i", "m", "e", "s">>,
      token |-> "Keyword(Times)"],
     [upper |-> <<"U", "N", "T", "I", "L">>,
      lower |-> <<"u", "n", "t", "i", "l">>,
      token |-> "Keyword(Until)"],
     [upper |-> <<"M", "O", "D">>,
      lower |-> <<"m", "o", "d">>,
      token |-> "Keyword(Mod)"],
     [upper |-> <<"T", "R", "U", "E">>,
      lower |-> <<"t", "r", "u", "e">>,
      token |-> "Keyword(True)"],
     [upper |-> <<"F", "A", "L", "S", "E">>,
      lower |-> <<"f", "a", "l", "s", "e">>,
      token |-> "Keyword(False)"],
     [upper |-> <<"R", "E", "T", "U", "R", "N">>,
      lower |-> <<"r", "e", "t", "u", "r", "n">>,
      token |-> "Keyword(Return)"],
     [upper |-> <<"F", "O", "R">>,
      lower |-> <<"f", "o", "r">>,
      token |-> "Keyword(For)"],
     [upper |-> <<"E", "A", "C", "H">>,
      lower |-> <<"e", "a", "c", "h">>,
      token |-> "Keyword(Each)"],
     [upper |-> <<"I", "N">>,
      lower |-> <<"i", "n">>,
      token |-> "Keyword(In)"],
     [upper |-> <<"P", "R", "O", "C", "E", "D", "U", "R", "E">>,
      lower |-> <<"p", "r", "o", "c", "e", "d", "u", "r", "e">>,
      token |-> "Keyword(Procedure)"]}

\* Identifier-shaped texts that are no reserved word: mixed case, a reserved
\* word with more before or after it, and plain names.
OtherWords ==
    {<<"x">>,
     <<"I", "f">>,
     <<"i", "F">>,
     <<"M", "o", "d">>,
     <<"P", "r", "o", "c", "e", "d", "u", "r", "e">>,
     <<"I", "F", "F">>,
     <<"N", "O", "T", "E">>,
     <<"_", "I", "F">>,
     <<"I", "F", "_">>,
     <<"O", "R", "1">>,
     <<"n", "O", "T">>,
     <<"E", "a", "c", "h">>,
     <<"d", "i", "s", "p", "l", "a", "y">>,
     <<"I">>,
     <<"N">>}

WordTexts ==
    {w.upper : w \in ReservedWords} \cup {w.lower : w \in ReservedWords}
        \cup OtherWords \cup {<<"%">>}

(***************************************************************************)
(* RETURN and PROCEDURE at each kind of place: at the top level, in the    *)
(* blocks of IF, REPEAT and FOR EACH, and in procedure bodies.  Each case  *)
(* gives the text, the number of RETURN statements outside every procedure *)
(* body (`returns`), the number of PROCEDURE definitions inside a          *)
(* procedure body (`procedures`) and the number of RETURN and PROCEDURE    *)
(* statements in the text (`return_stmts`, `procedure_stmts`).             *)
(***************************************************************************)

ScopeCases ==
    {[text |->
        <<"R", "E", "T", "U", "R", "N", " ", "1">>,
      returns |-> 1, procedures |-> 0, return_stmts |-> 1, procedure_stmts |-> 0],
     [text |->
        <<"R", "E", "T", "U", "R", "N">>,
      returns |-> 1, procedures |-> 0, return_stmts |-> 1, procedure_stmts |-> 0],
     [text |->
        <<"R", "E", "T", "U", "R", "N", " ", "1", "\n", "R", "E", "T", "U", "R", "N",
          " ", "2">>,
      returns |-> 2, procedures |-> 0, return_stmts |-> 2, procedure_stmts |-> 0],
     [text |->
        <<"I", "F", " ", "(", "T", "R", "U", "E", ")", " ", "{", "\n", " ", "R", "E",
          "T", "U", "R", "N", " ", "1", "\n", "}">>,
      returns |-> 1, procedures |-> 0, return_stmts |-> 1, procedure_stmts |-> 0],
     [text |->
        <<"I", "F", " ", "(", "F", "A", "L", "S", "E", ")", " ", "{", "\n", "}", " ",
          "E", "L", "S", "E", " ", "I", "F", " ", "(", "T", "R", "U", "E", ")", " ",
          "{", "\n", " ", "R", "E", "T", "U", "R", "N", " ", "1", "\n", "}", " ", "E",
          "L", "S", "E", " ", "{", "\n", " ", "R", "E", "T", "U", "R", "N", " ", "2",
          "\n", "}">>,
      returns |-> 2, procedures |-> 0, return_stmts |-> 2, procedure_stmts |-> 0],
     [text |->
        <<"R", "E", "P", "E", "A", "T", " ", "2", " ", "T", "I", "M", "E", "S", " ",
          "{", "\n", " ", "R", "E", "T", "U", "R", "N", " ", "1", "\n", "}">>,
      returns |-> 1, procedures |-> 0, return_stmts |-> 1, procedure_stmts |-> 0],
     [text |->
        <<"R", "E", "P", "E", "A", "T", " ", "U", "N", "T", "I", "L", " ", "(", "T",
          "R", "U", "E", ")", " ", "{", "\n", " ", "R", "E", "T", "U", "R", "N", "\n",
          "}">>,
      returns |-> 1, procedures |-> 0, return_stmts |-> 1, procedure_stmts |-> 0],
     [text |->
        <<"F", "O", "R", " ", "E", "A", "C", "H", " ", "v", " ", "I", "N", " ", "[",
          "1", "]", " ", "{", "\n", " ", "I", "F", " ", "(", "T", "R", "U", "E", ")",
          " ", "{", "\n", " ", "R", "E", "T", "U", "R", "N", " ", "v", "\n", " ", "}",
          "\n", "}">>,
      returns |-> 1, procedures |-> 0, return_stmts |-> 1, procedure_stmts |-> 0],
     [text |->
        <<"P", "R", "O", "C", "E", "D", "U", "R", "E", " ", "F", "(", ")", " ", "{",
          "\n", " ", "R", "E", "T", "U", "R", "N", " ", "1", "\n", "}">>,
      returns |-> 0, procedures |-> 0, return_stmts |-> 1, procedure_stmts |-> 1],
     [text |->
        <<"P", "R", "O", "C", "E", "D", "U", "R", "E", " ", "F", "(", ")", " ", "{",
          "\n", " ", "I", "F", " ", "(", "T", "R", "U", "E", ")", " ", "{", "\n", " ",
          "R", "E", "P", "E", "A", "T", " ", "2", " ", "T", "I", "M", "E", "S", " ",
          "{", "\n", " ", "R", "E", "T", "U", "R", "N", " ", "1", "\n", " ", "}", "\n",
          " ", "}", "\n", "}">>,
      returns |-> 0, procedures |-> 0, return_stmts |-> 1, procedure_stmts |-> 1],
     [text |->
        <<"P", "R", "O", "C", "E", "D", "U", "R", "E", " ", "F", "(", ")", " ", "{",
          "\n", " ", "R", "E", "T", "U", "R", "N", " ", "1", "\n", "}", "\n", "R", "E",
          "T", "U", "R", "N", " ", "2">>,
      returns |-> 1, procedures |-> 0, return_stmts |-> 2, procedure_stmts |-> 1],
     [text |->
        <<"P", "R", "O", "C", "E", "D", "U", "R", "E", " ", "F", "(", ")", " ", "{",
          "\n", " ", "P", "R", "O", "C", "E", "D", "U", "R", "E", " ", "G", "(", ")",
          " ", "{", "\n", " ", "R", "E", "T", "U", "R", "N", " ", "1", "\n", " ", "}",
          "\n", " ", "R", "E", "T", "U", "R", "N", " ", "2", "\n", "}">>,
      returns |-> 0, procedures |-> 1, return_stmts |-> 2, procedure_stmts |-> 2],
     [text |->
        <<"P", "R", "O", "C", "E", "D", "U", "R", "E", " ", "F", "(", ")", " ", "{",
          "\n", " ", "I", "F", " ", "(", "T", "R", "U", "E", ")", " ", "{", "\n", " ",
          "P", "R", "O", "C", "E", "D", "U", "R", "E", " ", "G", "(", ")", " ", "{",
          "\n", " ", "}", "\n", " ", "}", "\n", "}">>,
      returns |-> 0, procedures |-> 1, return_stmts |-> 0, procedure_stmts |-> 2],
     [text |->
        <<"P", "R", "O", "C", "E", "D", "U", "R", "E", " ", "F", "(", ")", " ", "{",
          "\n", " ", "P", "R", "O", "C", "E", "D", "U", "R", "E", " ", "G", "(", ")",
          " ", "{", "\n", " ", "P", "R", "O", "C", "E", "D", "U", "R", "E", " ", "H",
          "(", ")", " ", "{", "\n", " ", "}", "\n", " ", "}", "\n", " ", "P", "R", "O",
          "C", "E", "D", "U", "R", "E", " ", "K", "(", ")", " ", "{", "\n", " ", "}",
          "\n", "}">>,
      returns |-> 0, procedures |-> 3, return_stmts |-> 0, procedure_stmts |-> 4],
     [text |->
        <<"I", "F", " ", "(", "T", "R", "U", "E", ")", " ", "{", "\n", " ", "P", "R",
          "O", "C", "E", "D", "U", "R", "E", " ", "G", "(", ")", " ", "{", "\n", " ",
          "R", "E", "T", "U", "R", "N", " ", "1", "\n", " ", "}", "\n", " ", "R", "E",
          "T", "U", "R", "N", " ", "2", "\n", "}">>,
      returns |-> 1, procedures |-> 0, return_stmts |-> 2, procedure_stmts |-> 1]}

\* The statements of a case, followed by a DISPLAY on a line of its own.
ScopeProgram(text) == text \o <<"\n", "D", "I", "S", "P", "L", "A", "Y", "(", "1", ")">>

ScopePrograms == {ScopeProgram(c.text) : c \in ScopeCases}

(***************************************************************************)
(* `lhs <- 2` for left sides that are an Index, and for left sides that    *)
(* are neither a name nor an Index, with each kind of space after the      *)
(* arrow.  `index` tells the left sides that are an Index, `starts` those  *)
(* whose first token starts a statement in parse_scope.                    *)
(***************************************************************************)

AssignTargets ==
    {[text |-> <<"a", "[", "1", "]">>, index |-> TRUE, starts |-> TRUE],
     [text |-> <<"a", "[", "1", "]", "[", "2", "]">>, index |-> TRUE, starts |-> TRUE],
     [text |-> <<"f", "(", "1", ")", "[", "2", "]">>, index |-> TRUE, starts |-> TRUE],
     [text |-> <<"f", "(", ")">>, index |-> FALSE, starts |-> TRUE],
     [text |-> <<"x", " ", "+", " ", "1">>, index |-> FALSE, starts |-> TRUE],
     [text |-> <<"(", "x", ")">>, index |-> FALSE, starts |-> TRUE],
     [text |-> <<"(", "a", "[", "1", "]", ")">>, index |-> FALSE, starts |-> TRUE],
     [text |-> <<"[", "1", "]">>, index |-> FALSE, starts |-> TRUE],
     [text |-> <<"1">>, index |-> FALSE, starts |-> TRUE],
     [text |-> <<"-", "x">>, index |-> FALSE, starts |-> TRUE],
     [text |-> <<"T", "R", "U", "E">>, index |-> FALSE, starts |-> FALSE]}

\* What follows the arrow: nothing, blanks, or a line break.
AfterArrow == {<<>>, <<" ">>, <<"\t">>, <<"\n">>, <<" ", "\n", " ">>}

BreaksLine(space) == \E i \in DOMAIN space : space[i] = "\n"

AssignProgram(target, space) == target \o <<" ", "<", "-">> \o space \o <<"2">>

AssignPrograms == {AssignProgram(lhs.text, space) : lhs \in AssignTargets, space \in AfterArrow}

(***************************************************************************)
(* DISPLAY of a string literal, for every body of up to MaxBody characters *)
(* over a letter, another letter and the backslash.                        *)
(***************************************************************************)

\* The longest string body.
MaxBody == 3

StringBodies == UNION {[1..n -> {"a", "n", "\\"}] : n \in 0..MaxBody}

\* `DISPLAY("body")`
DisplayStringProgram(body) ==
    <<"D", "I", "S", "P", "L", "A", "Y", "(", "\"">> \o body \o <<"\"", ")">>

DisplayStringPrograms == {DisplayStringProgram(body) : body \in StringBodies}

(***************************************************************************)
(* Programs that parse without a diagnostic and reach a `panic!()`, an     *)
(* `unreachable!()` or an overflowing subtraction of the evaluator: a hex  *)
(* and a binary literal, an ELSE IF condition that is a number, a RETURN   *)
(* without a value in a procedure body, and the indices 0 and -1.  `why`   *)
(* is what aborts and `builds` the builds in which it does.                *)
(***************************************************************************)

PanicCases ==
    {[text |-> <<"D", "I", "S", "P", "L", "A", "Y", "(", "0", "x", "1", "F", ")">>,
      why |-> "panic", builds |-> {"debug", "release"}],
     [text |-> <<"D", "I", "S", "P", "L", "A", "Y", "(", "0", "b", "1", ")">>,
      why |-> "panic", builds |-> {"debug", "release"}],
     [text |-> <<"I", "F", " ", "(", "F", "A", "L", "S", "E", ")", " ", "{", "\n", "}",
                " ", "E", "L", "S", "E", " ", "I", "F", " ", "(", "1", ")", " ", "{",
                "\n", "}", "\n", "D", "I", "S", "P", "L", "A", "Y", "(", "1", ")">>,
      why |-> "panic", builds |-> {"debug", "release"}],
     [text |-> <<"P", "R", "O", "C", "E", "D", "U", "R", "E", " ", "F", "(", ")", " ",
                "{", "\n", " ", "R", "E", "T", "U", "R", "N", "\n", "}", "\n", "F",
                "(", ")", "\n", "D", "I", "S", "P", "L", "A", "Y", "(", "1", ")">>,
      why |-> "unreachable", builds |-> {"debug", "release"}],
     [text |-> <<"a", " ", "<", "-", " ", "[", "1", "]", "\n", "D", "I", "S", "P", "L",
                "A", "Y", "(", "a", "[", "0", "]", ")">>,
      why |-> "attempt to subtract with overflow", builds |-> {"debug"}],
     [text |-> <<"a", " ", "<", "-", " ", "[", "1", "]", "\n", "D", "I", "S", "P", "L",
                "A", "Y", "(", "a", "[", "-", "1", "]", ")">>,
      why |-> "attempt to subtract with overflow", builds |-> {"debug"}]}

PanicPrograms == {c.text : c \in PanicCases}

(***************************************************************************)
(* Programs that assign variables in the global scope and in procedure     *)
(* bodies.  `bindings` is what each environment binds to a number when the *)
(* run is over, environment 1 being the global one and the others the      *)
(* environments of the calls in the order the calls were made; `parents`   *)
(* is the parent of each environment, 0 for none; `kind` says              *)
(* what the program is about: an assignment that overwrites a binding, one *)
(* that creates a binding, a read of a name after the call that created    *)
(* it, and a procedure that reads or assigns a name of its caller.         *)
(***************************************************************************)

BindingCases ==
    {[text |-> <<"x", " ", "<", "-", " ", "1", "\n", "P", "R", "O", "C", "E", "D", "U",
                "R", "E", " ", "F", "(", ")", " ", "{", "\n", " ", "x", " ", "<", "-",
                " ", "2", "\n", "}", "\n", "F", "(", ")">>,
      bindings |-> <<{<<<<"x">>, 2>>}, {}>>,
      parents |-> <<0, 1>>,
      kind |-> "overwrites"],
     [text |-> <<"P", "R", "O", "C", "E", "D", "U", "R", "E", " ", "F", "(", ")", " ",
                "{", "\n", " ", "t", " ", "<", "-", " ", "2", "\n", "}", "\n", "F",
                "(", ")", "\n", "y", " ", "<", "-", " ", "3">>,
      bindings |-> <<{<<<<"y">>, 3>>}, {<<<<"t">>, 2>>}>>,
      parents |-> <<0, 1>>,
      kind |-> "creates"],
     [text |-> <<"x", " ", "<", "-", " ", "1", "\n", "y", " ", "<", "-", " ", "7", "\n",
                "x", " ", "<", "-", " ", "2">>,
      bindings |-> <<{<<<<"x">>, 2>>, <<<<"y">>, 7>>}>>,
      parents |-> <<0>>,
      kind |-> "overwrites"],
     [text |-> <<"P", "R", "O", "C", "E", "D", "U", "R", "E", " ", "F", "(", ")", " ",
                "{", "\n", " ", "t", " ", "<", "-", " ", "2", "\n", "}", "\n", "F",
                "(", ")", "\n", "z", " ", "<", "-", " ", "t">>,
      bindings |-> <<{}, {<<<<"t">>, 2>>}>>,
      parents |-> <<0, 1>>,
      kind |-> "undefined"],
     [text |-> <<"P", "R", "O", "C", "E", "D", "U", "R", "E", " ", "G", "(", ")", " ",
                "{", "\n", " ", "r", " ", "<", "-", " ", "t", "\n", " ", "t", " ", "<",
                "-", " ", "9", "\n", "}", "\n", "P", "R", "O", "C", "E", "D", "U", "R",
                "E", " ", "F", "(", ")", " ", "{", "\n", " ", "t", " ", "<", "-", " ",
                "2", "\n", " ", "G", "(", ")", "\n", "}", "\n", "F", "(", ")">>,
      bindings |-> <<{}, {<<<<"t">>, 9>>}, {<<<<"r">>, 2>>}>>,
      parents |-> <<0, 1, 2>>,
      kind |-> "dynamic"],
     [text |-> <<"P", "R", "O", "C", "E", "D", "U", "R", "E", " ", "G", "(", ")", " ",
                "{", "\n", " ", "t", " ", "<", "-", " ", "9", "\n", "}", "\n", "P",
                "R", "O", "C", "E", "D", "U", "R", "E", " ", "F", "(", ")", " ", "{",
                "\n", " ", "t", " ", "<", "-", " ", "2", "\n", " ", "G", "(", ")",
                "\n", "}", "\n", "G", "(", ")", "\n", "F", "(", ")">>,
      bindings |-> <<{}, {<<<<"t">>, 9>>}, {<<<<"t">>, 9>>}, {}>>,
      parents |-> <<0, 1, 1, 3>>,
      kind |-> "dynamic"],
     [text |-> <<"P", "R", "O", "C", "E", "D", "U", "R", "E", " ", "G", "(", ")", " ",
                "{", "\n", " ", "q", " ", "<", "-", " ", "4", "\n", "}", "\n", "P",
                "R", "O", "C", "E", "D", "U", "R", "E", " ", "F", "(", ")", " ", "{",
                "\n", " ", "t", " ", "<", "-", " ", "2", "\n", " ", "G", "(", ")",
                "\n", " ", "r", " ", "<", "-", " ", "q", "\n", "}", "\n", "F", "(", ")">>,
      bindings |-> <<{}, {<<<<"t">>, 2>>}, {<<<<"q">>, 4>>}>>,
      parents |-> <<0, 1, 2>>,
      kind |-> "undefined"],
     [text |-> <<"t", " ", "<", "-", " ", "1", "\n", "P", "R", "O", "C", "E", "D", "U",
                "R", "E", " ", "G", "(", ")", " ", "{", "\n", " ", "t", " ", "<", "-",
                " ", "9", "\n", "}", "\n", "P", "R", "O", "C", "E", "D", "U", "R", "E",
                " ", "F", "(", ")", " ", "{", "\n", " ", "G", "(", ")", "\n", " ", "r",
                " ", "<", "-", " ", "t", "\n", "}", "\n", "F", "(", ")">>,
      bindings |-> <<{<<<<"t">>, 9>>}, {<<<<"r">>, 9>>}, {}>>,
      parents |-> <<0, 1, 2>>,
      kind |-> "overwrites"]}

BindingPrograms == {c.text : c \in BindingCases}

(***************************************************************************)
(* Programs in which a call of a built-in fails, in the global scope and   *)
(* in procedure bodies.  `call` is the span of the failing call            *)
(* expression, `message` what the built-in reports and `stack` the spans   *)
(* of the procedure calls around it, innermost first.                      *)
(***************************************************************************)

BuiltinFailureCases ==
    {[text |-> <<"a", " ", "<", "-", " ", "[", "1", "]", "\n", "R", "E", "M", "O", "V",
                "E", "(", "a", ",", " ", "5", ")">>,
      call |-> Span(9, 21),
      message |-> "array index out of range",
      stack |-> <<>>],
     [text |-> <<"x", " ", "<", "-", " ", "1", " ", "+", " ", "L", "E", "N", "G", "T",
                "H", "(", "1", ")">>,
      call |-> Span(9, 18),
      message |-> "expected the first argument to be an array",
      stack |-> <<>>],
     [text |-> <<"a", " ", "<", "-", " ", "[", "1", "]", "\n", "D", "I", "S", "P", "L",
                "A", "Y", "(", "I", "N", "S", "E", "R", "T", "(", "a", ",", " ", "3",
                ",", " ", "2", ")", ")">>,
      call |-> Span(17, 32),
      message |-> "array index out of range",
      stack |-> <<>>],
     [text |-> <<"P", "R", "O", "C", "E", "D", "U", "R", "E", " ", "F", "(", ")", " ",
                "{", "\n", " ", "A", "P", "P", "E", "N", "D", "(", "1", ",", " ", "2",
                ")", "\n", "}", "\n", "F", "(", ")">>,
      call |-> Span(17, 29),
      message |-> "expected array for the first argument",
      stack |-> <<Span(32, 35)>>],
     [text |-> <<"P", "R", "O", "C", "E", "D", "U", "R", "E", " ", "F", "(", ")", " ",
                "{", "\n", " ", "x", " ", "<", "-", " ", "[", "I", "N", "S", "E", "R",
                "T", "(", "1", ",", " ", "1", ")", "]", "\n", "}", "\n", "P", "R", "O",
                "C", "E", "D", "U", "R", "E", " ", "G", "(", ")", " ", "{", "\n", " ",
                "F", "(", ")", "\n", "}", "\n", "x", " ", "<", "-", " ", "G", "(", ")">>,
      call |-> Span(23, 35),
      message |-> "expected array for the first argument",
      stack |-> <<Span(56, 59), Span(67, 70)>>]}

BuiltinFailurePrograms == {c.text : c \in BuiltinFailureCases}

(***************************************************************************)
(* Programs with a REPEAT UNTIL loop whose body counts its runs in n.      *)
(* `cond` is the span of the condition inside its parentheses and `kind`   *)
(* the kind of that expression, `body` the span of `n + 1` in the body,    *)
(* `runs` the number of times the body is to run and `ends` the value the  *)
(* program is to end with.                                                 *)
(***************************************************************************)

RepeatUntilCases ==
    {[text |-> <<"n", " ", "<", "-", " ", "0", "\n", "R", "E", "P", "E", "A", "T", " ",
                "U", "N", "T", "I", "L", " ", "(", "T", "R", "U", "E", ")", " ", "{",
                "\n", " ", "n", " ", "<", "-", " ", "n", " ", "+", " ", "1", "\n", "}">>,
      cond |-> Span(21, 25), kind |-> "True",
      body |-> Span(35, 40), runs |-> 0, ends |-> "Void"],
     [text |-> <<"n", " ", "<", "-", " ", "0", "\n", "R", "E", "P", "E", "A", "T", " ",
                "U", "N", "T", "I", "L", " ", "(", "n", " ", "=", " ", "1", ")", " ",
                "{", "\n", " ", "n", " ", "<", "-", " ", "n", " ", "+", " ", "1", "\n",
                "}">>,
      cond |-> Span(21, 26), kind |-> "BinaryOp",
      body |-> Span(36, 41), runs |-> 1, ends |-> "Void"],
     [text |-> <<"n", " ", "<", "-", " ", "0", "\n", "R", "E", "P", "E", "A", "T", " ",
                "U", "N", "T", "I", "L", " ", "(", "n", " ", ">", "=", " ", "3", ")",
                " ", "{", "\n", " ", "n", " ", "<", "-", " ", "n", " ", "+", " ", "1",
                "\n", "}">>,
      cond |-> Span(21, 27), kind |-> "BinaryOp",
      body |-> Span(37, 42), runs |-> 3, ends |-> "Void"],
     [text |-> <<"n", " ", "<", "-", " ", "0", "\n", "R", "E", "P", "E", "A", "T", " ",
                "U", "N", "T", "I", "L", " ", "(", "n", " ", "=", " ", "0", ")", " ",
                "{", "\n", " ", "n", " ", "<", "-", " ", "n", " ", "+", " ", "1", "\n",
                "}">>,
      cond |-> Span(21, 26), kind |-> "BinaryOp",
      body |-> Span(36, 41), runs |-> 0, ends |-> "Void"],
     [text |-> <<"n", " ", "<", "-", " ", "0", "\n", "R", "E", "P", "E", "A", "T", " ",
                "U", "N", "T", "I", "L", " ", "(", "1", ")", " ", "{", "\n", " ", "n",
                " ", "<", "-", " ", "n", " ", "+", " ", "1", "\n", "}">>,
      cond |-> Span(21, 22), kind |-> "IntegerLiteral",
      body |-> Span(32, 37), runs |-> 0, ends |-> "Exception"],
     [text |-> <<"n", " ", "<", "-", " ", "0", "\n", "c", " ", "<", "-", " ", "F", "A",
                "L", "S", "E", "\n", "R", "E", "P", "E", "A", "T", " ", "U", "N", "T",
                "I", "L", " ", "(", "c", ")", " ", "{", "\n", " ", "n", " ", "<", "-",
                " ", "n", " ", "+", " ", "1", "\n", " ", "c", " ", "<", "-", " ", "5",
                "\n", "}">>,
      cond |-> Span(32, 33), kind |-> "Identifier",
      body |-> Span(43, 48), runs |-> 1, ends |-> "Exception"],
     [text |-> <<"n", " ", "<", "-", " ", "0", "\n", "c", " ", "<", "-", " ", "F", "A",
                "L", "S", "E", "\n", "R", "E", "P", "E", "A", "T", " ", "U", "N", "T",
                "I", "L", " ", "(", "c", ")", " ", "{", "\n", " ", "n", " ", "<", "-",
                " ", "n", " ", "+", " ", "1", "\n", " ", "c", " ", "<", "-", " ", "n",
                " ", "=", " ", "2", "\n", "}">>,
      cond |-> Span(32, 33), kind |-> "Identifier",
      body |-> Span(43, 48), runs |-> 2, ends |-> "Void"]}

RepeatUntilPrograms == {c.text : c \in RepeatUntilCases}

(***************************************************************************)
(* Texts for the whitespace before a token: a run of up to MaxBlank        *)
(* spaces, tabs, carriage returns and line feeds in every order, at the    *)
(* start of the text or after a word, and before a word or the end of the  *)
(* text.                                                                   *)
(***************************************************************************)

MaxBlank == 3

WhitespaceRuns == UNION {[1..n -> Whitespace] : n \in 0..MaxBlank}

WhitespaceTexts ==
    {before \o run \o after :
        before \in {<<>>, <<"a">>}, run \in WhitespaceRuns, after \in {<<>>, <<"b">>}}

(***************************************************************************)
(* Programs of three lines, DISPLAY(1), a line that starts with a token    *)
(* that begins no statement, and DISPLAY(2).  `token` is that token.       *)
(***************************************************************************)

TruncatedCases ==
    {[text |-> <<"D", "I", "S", "P", "L", "A", "Y", "(", "1", ")", "\n", "\"", "s",
                "\"", "\n", "D", "I", "S", "P", "L", "A", "Y", "(", "2", ")">>,
      token |-> "StringLiteral"],
     [text |-> <<"D", "I", "S", "P", "L", "A", "Y", "(", "1", ")", "\n", "T", "R", "U",
                "E", "\n", "D", "I", "S", "P", "L", "A", "Y", "(", "2", ")">>,
      token |-> "Keyword(True)"],
     [text |-> <<"D", "I", "S", "P", "L", "A", "Y", "(", "1", ")", "\n", "F", "A", "L",
                "S", "E", "\n", "D", "I", "S", "P", "L", "A", "Y", "(", "2", ")">>,
      token |-> "Keyword(False)"],
     [text |-> <<"D", "I", "S", "P", "L", "A", "Y", "(", "1", ")", "\n", "N", "O", "T",
                " ", "x", "\n", "D", "I", "S", "P", "L", "A", "Y", "(", "2", ")">>,
      token |-> "Keyword(Not)"],
     [text |-> <<"D", "I", "S", "P", "L", "A", "Y", "(", "1", ")", "\n", "1", ".", "5",
                "\n", "D", "I", "S", "P", "L", "A", "Y", "(", "2", ")">>,
      token |-> "FloatLiteral"],
     [text |-> <<"D", "I", "S", "P", "L", "A", "Y", "(", "1", ")", "\n", "}", "\n", "D",
                "I", "S", "P", "L", "A", "Y", "(", "2", ")">>,
      token |-> "RightBrace"]}

TruncatedPrograms == {c.text : c \in TruncatedCases}

(***************************************************************************)
(* Programs that store into an element of the array a = [1, 2], with a     *)
(* right side that reads a, in the body of a FOR EACH over a, and with     *)
(* another array in these places.  `items` is what a is to hold after the  *)
(* store, and `aborts` the borrow that fails, "none" when none does.       *)
(***************************************************************************)

SelfStoreCases ==
    {[text |-> <<"a", " ", "<", "-", " ", "[", "1", ",", " ", "2", "]", "\n", "a", "[",
                "1", "]", " ", "<", "-", " ", "a", "[", "2", "]", "\n", "D", "I", "S",
                "P", "L", "A", "Y", "(", "a", ")">>,
      items |-> <<2, 2>>, aborts |-> "already mutably borrowed"],
     [text |-> <<"a", " ", "<", "-", " ", "[", "1", ",", " ", "2", "]", "\n", "a", "[",
                "1", "]", " ", "<", "-", " ", "L", "E", "N", "G", "T", "H", "(", "a",
                ")", "\n", "D", "I", "S", "P", "L", "A", "Y", "(", "a", ")">>,
      items |-> <<2, 2>>, aborts |-> "already mutably borrowed"],
     [text |-> <<"a", " ", "<", "-", " ", "[", "1", ",", " ", "2", "]", "\n", "a", "[",
                "2", "]", " ", "<", "-", " ", "a", "[", "1", "]", " ", "+", " ", "4",
                "\n", "D", "I", "S", "P", "L", "A", "Y", "(", "a", ")">>,
      items |-> <<1, 5>>, aborts |-> "already mutably borrowed"],
     [text |-> <<"a", " ", "<", "-", " ", "[", "1", ",", " ", "2", "]", "\n", "F", "O",
                "R", " ", "E", "A", "C", "H", " ", "v", " ", "I", "N", " ", "a", " ",
                "{", "\n", " ", "a", "[", "1", "]", " ", "<", "-", " ", "5", "\n", "}",
                "\n", "D", "I", "S", "P", "L", "A", "Y", "(", "a", ")">>,
      items |-> <<5, 2>>, aborts |-> "already borrowed"],
     [text |-> <<"a", " ", "<", "-", " ", "[", "1", ",", " ", "2", "]", "\n", "b", " ",
                "<", "-", " ", "[", "3", "]", "\n", "a", "[", "1", "]", " ", "<", "-",
                " ", "b", "[", "1", "]", "\n", "D", "I", "S", "P", "L", "A", "Y", "(",
                "a", ")">>,
      items |-> <<3, 2>>, aborts |-> "none"],
     [text |-> <<"a", " ", "<", "-", " ", "[", "1", ",", " ", "2", "]", "\n", "b", " ",
                "<", "-", " ", "[", "3", "]", "\n", "F", "O", "R", " ", "E", "A", "C",
                "H", " ", "v", " ", "I", "N", " ", "b", " ", "{", "\n", " ", "a", "[",
                "2", "]", " ", "<", "-", " ", "v", "\n", "}", "\n", "D", "I", "S", "P",
                "L", "A", "Y", "(", "a", ")">>,
      items |-> <<1, 3>>, aborts |-> "none"]}

SelfStorePrograms == {c.text : c \in SelfStoreCases}

Programs ==
    {ProcedureOnOneLine, ProcedureOnThreeLines}
        \cup TerminatorPrograms
        \cup RejectedPrograms
        \cup RaisingPrograms
        \cup ShortCircuitPrograms
        \cup IndexPrograms
        \cup AppendInLoopPrograms
        \cup ReturnPrograms
        \cup NestedRaisePrograms
        \cup StoringPrograms
        \cup InsertPrograms
        \cup RemovePrograms
        \cup ScopePrograms
        \cup AssignPrograms
        \cup DisplayStringPrograms
        \cup PanicPrograms
        \cup BindingPrograms
        \cup BuiltinFailurePrograms
        \cup RepeatUntilPrograms
        \cup TruncatedPrograms
        \cup SelfStorePrograms

(***************************************************************************)
(* The entry points: `run` of the CLI (src/aps/src/main.rs), `interpret`   *)
(* of the embedding (src/aps_core/src/wasm.rs), parse_expr(0) on its own   *)
(* and the lexer on its own, called until it deposits EOF.                 *)
(***************************************************************************)

Init ==
    /\ \/ command \in {"run", "interpret"} /\ input \in Programs
          /\ build \in {"debug", "release"}
       \/ command = "parse_expr" /\ input \in Expressions
          /\ build \in {"debug", "release"}
       \* the lexer does no arithmetic that a build changes
       \/ command = "lex" /\ input \in LexTexts \cup WordTexts \cup WhitespaceTexts
          /\ build = "debug"
    /\ pc = "start"
    /\ parser = Parser_new
    /\ value = [ok |-> FALSE, x |-> <<>>]
    /\ vm = Ret(Void, VM_new)
    /\ outcome = "running"

\* `let mut parser = Parser::new(fid, input.as_bytes()); parser.lex.next();`
Start ==
    /\ pc = "start"
    /\ parser' = Advance(input, Parser_new)
    /\ pc' = "lexed"
    /\ UNCHANGED <<input, command, build, value, vm, outcome>>

\* `let value = parser.parse_scope(true);`
ParseProgram ==
    /\ pc = "lexed"
    /\ command \in {"run", "interpret"}
    /\ \E r \in {parse_scope(input, parser, TRUE)} :
          /\ value' = [ok |-> r.ok, x |-> r.x]
          /\ parser' = r.p
    /\ pc' = "parsed"
    /\ UNCHANGED <<input, command, build, vm, outcome>>

\* parser.parse_expr(0)
ParseExpression ==
    /\ pc = "lexed"
    /\ command = "parse_expr"
    /\ \E r \in {parse_expr(input, parser, 0)} :
          /\ value' = [ok |-> r.ok, x |-> r.x]
          /\ parser' = r.p
    /\ pc' = "done"
    /\ outcome' = IF value'.ok THEN "Ok" ELSE "Err"
    /\ UNCHANGED <<input, command, build, vm>>

\* `lex.next()` again, token after token until EOF is deposited.  A call that
\* deposits nothing and leaves the index where it was would do so for ever:
\* the walk ends there too.
LexToken ==
    /\ pc = "lexed"
    /\ command = "lex"
    /\ parser' = IF parser.lex.token = "EOF" THEN parser ELSE Advance(input, parser)
    /\ pc' = IF parser'.lex.token = "EOF" \/ parser'.lex.index = parser.lex.index
             THEN "done" ELSE "lexed"
    /\ outcome' = IF pc' = "done" THEN "Ok" ELSE outcome
    /\ UNCHANGED <<input, command, build, value, vm>>

\* main: `if parser.diagnostics.len() != 0 { .. std::process::exit(1) }`
RunReport ==
    /\ pc = "parsed"
    /\ command = "run"
    /\ parser.diagnostics # <<>>
    /\ outcome' = "exit 1"
    /\ pc' = "done"
    /\ UNCHANGED <<input, command, build, parser, value, vm>>

\* What the evaluation of the parsed program leaves behind: `value.unwrap()`
\* panics on Err.
Evaluate ==
    IF ~value.ok THEN Ret(Abort("unwrap on Err"), VM_new)
    ELSE eval_scope(value.x, 1, VM_new,
                    [source |-> input, overflow_checks |-> (build = "debug")])

\* main without its `if parser.diagnostics.len() != 0 { .. exit(1) }`
RunEvaluate_Unchecked ==
    /\ pc = "parsed"
    /\ command = "run"
    /\ vm' = Evaluate
    /\ outcome' = CASE vm'.v.t = "Abort" -> "panic"
                    [] vm'.v.t = "Diverge" -> "running"
                    [] vm'.v.t = "Exception" -> "exit 1"
                    [] OTHER -> "exit 0"
    /\ pc' = "done"
    /\ UNCHANGED <<input, command, build, parser, value>>

\* main: the evaluation and the exit code
RunEvaluate ==
    /\ pc = "parsed"
    /\ command = "run"
    /\ parser.diagnostics = <<>>
    /\ vm' = Evaluate
    /\ outcome' = CASE vm'.v.t = "Abort" -> "panic"
                    [] vm'.v.t = "Diverge" -> "running"
                    [] vm'.v.t = "Exception" -> "exit 1"
                    [] OTHER -> "exit 0"
    /\ pc' = "done"
    /\ UNCHANGED <<input, command, build, parser, value>>

\* interpret: `if parser.diagnostics.len() != 0 || parser.lex.token != Token::EOF`
InterpretReport ==
    /\ pc = "parsed"
    /\ command = "interpret"
    /\ parser.diagnostics # <<>> \/ parser.lex.token # "EOF"
    /\ parser' = IF parser.lex.token # "EOF"
                 THEN Diagnose(parser, <<"expected statement, found", parser.lex.token>>,
                               Lexer_span(parser.lex))
                 ELSE parser
    /\ outcome' = "Data"
    /\ pc' = "done"
    /\ UNCHANGED <<input, command, build, value, vm>>

\* interpret: the evaluation and the RunStatus returned
InterpretEvaluate ==
    /\ pc = "parsed"
    /\ command = "interpret"
    /\ parser.diagnostics = <<>>
    /\ parser.lex.token = "EOF"
    /\ vm' = Evaluate
    /\ outcome' = CASE vm'.v.t = "Abort" -> "panic"
                    [] vm'.v.t = "Diverge" -> "running"
                    [] vm'.v.t = "Exception" -> "Data"
                    [] OTHER -> "Ok"
    /\ pc' = "done"
    /\ UNCHANGED <<input, command, build, parser, value>>

Next ==
    \/ Start
    \/ ParseProgram
    \/ ParseExpression
    \/ LexToken
    \/ RunReport
    \/ RunEvaluate
    \/ InterpretReport
    \/ InterpretEvaluate

Spec == Init /\ [][Next]_vars

(***************************************************************************)
(* Associativity and precedence of the expression parser.                  *)
(***************************************************************************)

\* `(a op1 b) op2 c` and `a op1 (b op2 c)` as Grouped writes them
LeftGrouping(x, op1, y, op2, z) == <<"(", "(", x, op1, y, ")", op2, z, ")">>

RightGrouping(x, op1, y, op2, z) == <<"(", x, op1, "(", y, op2, z, ")", ")">>

ParsedExpression == pc = "done" /\ command = "parse_expr"

\* C1: every binary operator is left-associative: parse_expr(0) on
\* `a op b op c` builds BinaryOp(op, BinaryOp(op, a, b), c), and `1 - 2 - 3`
\* is grouped as (1 - 2) - 3.
C1_LeftAssociative ==
    ParsedExpression =>
        /\ \A op \in BinaryOps :
               input = Chain(op, op) =>
                   /\ value.ok
                   /\ Grouped(value.x, input) = LeftGrouping("a", op, "b", op, "c")
        /\ input = OneTwoThree =>
               /\ value.ok
               /\ Grouped(value.x, input) = LeftGrouping("1", "Sub", "2", "Sub", "3")

\* What the parser builds instead for `1 - 2 - 3`: 1 - (2 - 3).
C1_OneTwoThreeGroupsRight ==
    (ParsedExpression /\ input = OneTwoThree) =>
        /\ value.ok
        /\ Grouped(value.x, input) = RightGrouping("1", "Sub", "2", "Sub", "3")

\* The precedence rule for one pair of binary operators, op1 binding less
\* tightly than op2.
PrecedenceHolds(op1, op2) ==
    /\ input = Chain(op1, op2) =>
           /\ value.ok
           /\ Grouped(value.x, input) = RightGrouping("a", op1, "b", op2, "c")
    /\ input = Chain(op2, op1) =>
           /\ value.ok
           /\ Grouped(value.x, input) = LeftGrouping("a", op2, "b", op1, "c")

\* The operand of a prefix operator: `-a * b` is (-a) * b, `-a[i]` is
\* -(a[i]) and `-f()` is -(f()).
PrefixHolds(pre) ==
    /\ input = PrefixProduct(pre) =>
           value.ok /\ Grouped(value.x, input) = <<"(", "(", pre, "a", ")", "Mul", "b", ")">>
    /\ input = PrefixIndex(pre) =>
           value.ok /\ Grouped(value.x, input) = <<"(", pre, "(", "a", "[", "i", "]", ")", ")">>
    /\ input = PrefixCall(pre) =>
           value.ok /\ Grouped(value.x, input) = <<"(", pre, "(", "f", "(", ")", ")", ")">>

\* C2: precedence follows the left-binding-power table: for binary operators
\* op1, op2 with lbp(op1) < lbp(op2), `a op1 b op2 c` parses as
\* a op1 (b op2 c) and `a op2 b op1 c` as (a op2 b) op1 c; a prefix operator
\* takes as operand only what binds at 70 or tighter.
C2_PrecedenceFollowsLbp ==
    ParsedExpression =>
        /\ \A op1 \in BinaryOps, op2 \in BinaryOps :
               OpLbp(op1) < OpLbp(op2) => PrecedenceHolds(op1, op2)
        /\ \A pre \in PrefixOps : PrefixHolds(pre)

\* The same rule with `!=` left out: it holds for every other operator.
C2_PrecedenceWithoutNotEqual ==
    ParsedExpression =>
        /\ \A op1 \in BinaryOps \ {"NotEqual"}, op2 \in BinaryOps \ {"NotEqual"} :
               OpLbp(op1) < OpLbp(op2) => PrecedenceHolds(op1, op2)
        /\ \A pre \in PrefixOps : PrefixHolds(pre)

\* `a != b * c` is not parsed at all: the lexer leaves the `=` of `!=`
\* behind as a token of its own.
C2_NotEqualIsNotParsed ==
    (ParsedExpression /\ input = Chain("NotEqual", "Mul")) =>
        /\ ~value.ok
        /\ parser.diagnostics # <<>>
        /\ parser.diagnostics[1].message = <<"expected expression, found", "Equal">>

(***************************************************************************)
(* Statement terminators.                                                  *)
(***************************************************************************)

ParsedProgram == pc \in {"parsed", "done"} /\ command \in {"run", "interpret"}

Finished == pc = "done" /\ command \in {"run", "interpret"}

\* The diagnostic of expect_stmt_end
TerminatorDiagnostic(d) == d.message[1] = "expected new line after statement, found"

HasTerminatorDiagnostic ==
    \E i \in DOMAIN parser.diagnostics : TerminatorDiagnostic(parser.diagnostics[i])

\* The rule for one program of two statements.
TerminatorRuleHolds(first, separator, second) ==
    input = TwoStatements(first, separator, second) =>
        /\ HasTerminatorDiagnostic <=> (separator \in SameLine /\ second # <<>>)
        /\ value.ok
        /\ Len(value.x) = IF second = <<>> THEN 1 ELSE 2

\* C3: after every statement parsed by parse_scope, simple or IF, REPEAT,
\* FOR EACH or PROCEDURE, a diagnostic is emitted if and only if the token
\* that follows has has_newline_before = false and is not EOF; parsing
\* continues after the diagnostic.
C3_TerminatorRule ==
    ParsedProgram =>
        \A first \in SimpleStatements \cup BlockStatements,
           separator \in SameLine \cup NextLine,
           second \in SecondStatements \cup {<<>>} :
            TerminatorRuleHolds(first, separator, second)

\* The rule as the code has it: it holds after the simple statements, and
\* after a block statement no diagnostic is ever emitted.
C3_TerminatorRuleOfSimpleStatements ==
    ParsedProgram =>
        /\ \A first \in SimpleStatements,
              separator \in SameLine \cup NextLine,
              second \in SecondStatements \cup {<<>>} :
               TerminatorRuleHolds(first, separator, second)
        /\ \A first \in BlockStatements,
              separator \in SameLine \cup NextLine,
              second \in SecondStatements \cup {<<>>} :
               input = TwoStatements(first, separator, second) =>
                   parser.diagnostics = <<>>

(***************************************************************************)
(* The procedure written on one line.                                      *)
(***************************************************************************)

\* C4: `PROCEDURE F() { RETURN 5 }` followed on the next line by
\* `DISPLAY(F() + 1)` parses with zero diagnostics, is evaluated, and DISPLAY
\* is called exactly once with the number 6.
C4_ProcedureOnOneLineDisplaysSix ==
    (Finished /\ input = ProcedureOnOneLine) =>
        /\ parser.diagnostics = <<>>
        /\ vm.s.out = <<<<Int2Number(6)>>>>

\* What happens instead: the `}` after `RETURN 5` is reported and nothing is
\* evaluated.
C4_ProcedureOnOneLineIsRejected ==
    (Finished /\ input = ProcedureOnOneLine) =>
        /\ Len(parser.diagnostics) = 1
        /\ parser.diagnostics[1].message
               = <<"expected new line after statement, found", "RightBrace">>
        /\ parser.diagnostics[1].span = Span(25, 26)
        /\ vm.s.out = <<>>
        /\ outcome \in {"exit 1", "Data"}

\* With the body on lines of its own the program displays 6.
C4_ProcedureOnThreeLinesDisplaysSix ==
    (Finished /\ input = ProcedureOnThreeLines) =>
        /\ parser.diagnostics = <<>>
        /\ vm.s.out = <<<<Int2Number(6)>>>>
        /\ outcome \in {"exit 0", "Ok"}

(***************************************************************************)
(* Diagnostics and evaluation.                                             *)
(***************************************************************************)

\* C5: in `run` and in `interpret`, if the diagnostic vector is non-empty
\* after parse_scope(true) the program is not evaluated (the machine stays
\* as it was made: no statement executed, no built-in invoked, nothing
\* displayed) and the run ends in the error outcome, exit code 1 or Data.
C5_DiagnosticsSuppressEvaluation ==
    [][(pc = "parsed" /\ parser.diagnostics # <<>>) =>
          /\ pc' = "done"
          /\ vm' = Ret(Void, VM_new)
          /\ outcome' = IF command = "run" THEN "exit 1" ELSE "Data"]_vars

\* A program with statements to execute was parsed with a diagnostic, and
\* the run is over.
C5_Witness ==
    /\ Finished
    /\ parser.diagnostics # <<>>
    /\ value.ok
    /\ \E i \in DOMAIN value.x : value.x[i].t = "Expr" /\ value.x[i].e.t = "FnCall"
    /\ outcome \in {"exit 1", "Data"}

(***************************************************************************)
(* Exceptions.                                                             *)
(***************************************************************************)

Raised(event) == event.k = "raise"

\* C6: when the evaluation of a sub-expression or nested scope returns an
\* Exception, the enclosing eval_expr and eval_scope return that Exception,
\* with the message and primary span it was raised with and a stack of
\* procedure call sites only, and evaluate nothing more: the raise is the
\* last thing the run did (no later operand, argument, array element or
\* statement evaluated, no built-in called, nothing written to an
\* environment or an array) and nothing that follows it is displayed.
C6_ExceptionPropagates ==
    (Finished /\ vm.v.t = "Exception") =>
        LET log == vm.s.log
            last == log[Len(log)]
        IN /\ log # <<>>
           /\ Raised(last)
           /\ last.what = vm.v.message
           /\ last.span = vm.v.span
           /\ \A i \in 1..(Len(log) - 1) : ~Raised(log[i])
           /\ \A j \in DOMAIN vm.v.stack :
                  \E i \in DOMAIN log :
                      /\ log[i] = Event("expr", "FnCall", vm.v.stack[j])
           /\ \A i \in DOMAIN vm.s.out : vm.s.out[i] # <<Int2Number(8)>>

\* An Exception raised inside a loop inside an IF inside a procedure called
\* by another procedure reached the top, after statements had been executed
\* and an environment written.
C6_Witness ==
    /\ Finished
    /\ input \in RaisingPrograms
    /\ vm.v.t = "Exception"
    /\ Len(vm.v.stack) = 2
    /\ \E i \in DOMAIN vm.s.log : vm.s.log[i].k = "write"
    /\ Raised(vm.s.log[Len(vm.s.log)])

(***************************************************************************)
(* Short-circuit evaluation.                                               *)
(***************************************************************************)

\* The left value that decides the operator's result.
Decides(op) == op = "Or"

\* No expression inside source[from, to) was evaluated.
NotEvaluated(from, to) ==
    \A i \in DOMAIN vm.s.log :
        vm.s.log[i].k = "expr" =>
            ~(from <= vm.s.log[i].span.start /\ vm.s.log[i].span.end <= to)

\* C7: when the left operand of AND evaluates to Bool(false) the result is
\* Bool(false), and when the left operand of OR evaluates to Bool(true) the
\* result is Bool(true); in both cases the right operand is never evaluated,
\* so its side effect or error does not occur.
C7_ShortCircuit ==
    Finished =>
        \A left \in LeftOperands, op \in {"And", "Or"}, right \in RightOperands :
            (input = ShortCircuitProgram(left[1], op, right) /\ left[2] = Decides(op)) =>
                /\ vm.v = Void
                /\ vm.s.out = <<<<Bool(Decides(op))>>>>
                /\ NotEvaluated(RightOperandStart(left[1], op),
                                RightOperandStart(left[1], op) + Len(right))

\* `1 = 2 AND F()` was evaluated: x is FALSE, and the 7 that F displays is
\* not in the output.
C7_Witness ==
    /\ Finished
    /\ input = ShortCircuitProgram(<<"1", " ", "=", " ", "2">>, "And", <<"F", "(", ")">>)
    /\ vm.s.out = <<<<Bool(FALSE)>>>>
    /\ \E i \in DOMAIN vm.s.log :
           vm.s.log[i] = Event("expr", "BinaryOp",
                               Span(Len(ShortCircuitPrelude) + 5,
                                    RightOperandStart(<<"1", " ", "=", " ", "2">>, "And") + 3))

(***************************************************************************)
(* Arrays.                                                                 *)
(***************************************************************************)

\* C8: for an array of length len >= 1, a[i] returns the i-th item for every
\* integer i in 1..len, a[len] included; a[0] and a[len+1] each return an
\* Exception: an out-of-range runtime error, not an abort and not an item.
C8_OneBasedArrays ==
    Finished =>
        \A len \in 1..MaxLen, i \in 0..(MaxLen + 1) :
            (input = IndexProgram(len, i) /\ i <= len + 1) =>
                IF i \in 1..len
                THEN vm.v = Void /\ vm.s.out = <<<<Int2Number(Item(i))>>>>
                ELSE vm.v.t = "Exception" /\ vm.s.out = <<>>

\* The same holds of a build without overflow checks.
C8_OneBasedArraysInRelease ==
    (Finished /\ build = "release") =>
        \A len \in 1..MaxLen, i \in 0..(MaxLen + 1) :
            input = IndexProgram(len, i) =>
                IF i \in 1..len
                THEN vm.v = Void /\ vm.s.out = <<<<Int2Number(Item(i))>>>>
                ELSE vm.v.t = "Exception" /\ vm.s.out = <<>>

\* In a build with overflow checks a[0] aborts the run.
C8_IndexZeroAbortsInDebug ==
    (Finished /\ build = "debug") =>
        \A len \in 1..MaxLen :
            input = IndexProgram(len, 0) =>
                /\ vm.v = Abort("attempt to subtract with overflow")
                /\ outcome = "panic"

\* C9: in FOR EACH v IN arr, when the body calls APPEND on the array being
\* iterated, the loop completes normally and runs its body exactly as many
\* times as the array was long at loop entry; the appended items are in the
\* array afterwards and are not visited.
C9_LengthCapturedAtEntry ==
    Finished =>
        \A len \in 1..MaxLen :
            input = AppendInLoopProgram(len) =>
                /\ vm.v = Void
                /\ vm.s.out = [k \in 1..len |-> <<Int2Number(Item(k))>>]
                                  \o <<<<Int2Number(2 * len), Int2Number(Item(1))>>>>

\* What happens instead: the first APPEND aborts the run, after the first
\* item was displayed.
C9_AppendInLoopAborts ==
    Finished =>
        \A len \in 1..MaxLen :
            input = AppendInLoopProgram(len) =>
                /\ vm.v = Abort("already borrowed")
                /\ vm.s.out = <<<<Int2Number(Item(1))>>>>
                /\ Len(vm.s.heap[1].items) = len
                /\ outcome = "panic"

(***************************************************************************)
(* RETURN inside blocks.                                                   *)
(***************************************************************************)

\* The program returned e from inside the block: the call of F yielded e's
\* value, which is what r holds, the block displayed 1 once and the 9 after
\* the block was not displayed.
Bubbled(e) ==
    /\ vm.v = Void
    /\ <<"r">> \in DOMAIN vm.s.envs[1].entries
    /\ vm.s.envs[1].entries[<<"r">>] = e.v
    /\ vm.s.out = <<<<Int2Number(1)>>>> \o e.shows \o <<<<Int2Number(2)>>>>

\* C10: when RETURN e executes inside an IF / ELSE IF / ELSE, REPEAT n
\* TIMES, REPEAT UNTIL or FOR EACH block nested to any depth in a procedure
\* body, then for every value v that e evaluates to the enclosing procedure
\* call immediately yields v: no further loop iteration and no statement
\* after the block is executed.
C10_ReturnBubbles ==
    Finished =>
        \A block \in ReturnBlocks, e \in ReturnedExpressions :
            input = ReturnProgram(block, e.text) => Bubbled(e)

\* It holds of every returned value but Void.
C10_ReturnOfNonVoidBubbles ==
    Finished =>
        \A block \in ReturnBlocks, e \in ReturnedExpressions :
            (input = ReturnProgram(block, e.text) /\ e.v # Void) => Bubbled(e)

\* A returned Void does not leave an IF block: the 9 after the block is
\* displayed and the call yields the 7 of the procedure's last statement.
C10_ReturnOfVoidFallsThrough ==
    (Finished /\ input = ReturnProgram(<<<<"I", "F", " ", "(", "T", "R", "U", "E", ")", " ", "{", "\n">>, <<"}", "\n">>>>, <<"G", "(", ")">>)) =>
        /\ vm.v = Void
        /\ vm.s.envs[1].entries[<<"r">>] = Int2Number(7)
        /\ vm.s.out = <<<<Int2Number(1)>>, <<Int2Number(9)>>, <<Int2Number(2)>>>>

(***************************************************************************)
(* The call stack of an Exception.                                         *)
(***************************************************************************)

\* C11: when an exception is raised inside nested procedure calls of depth d
\* (P1 called at the top level, P1 calls P2, .., Pd raises), the Exception
\* that reaches the caller has a stack of exactly d call-site spans, the
\* call of P1 first and the call of Pd last, and its primary span is the
\* raise site.
C11_CallStackOutermostFirst ==
    Finished =>
        \A d \in 1..MaxDepth :
            input = NestedRaiseProgram(d) =>
                /\ vm.v.t = "Exception"
                /\ vm.v.span = RaiseSite(d)
                /\ vm.v.stack = [k \in 1..d |-> CallSite(k, d)]

\* What the evaluator builds: each call pushes its span as the Exception
\* passes through it, so the call of Pd is first and the call of P1 last.
C11_CallStackInnermostFirst ==
    Finished =>
        \A d \in 1..MaxDepth :
            input = NestedRaiseProgram(d) =>
                /\ vm.v.t = "Exception"
                /\ vm.v.span = RaiseSite(d)
                /\ vm.v.stack = [k \in 1..d |-> CallSite(d + 1 - k, d)]

(***************************************************************************)
(* Exceptions are transient.                                               *)
(***************************************************************************)

\* C12: an Exception is never stored: no environment entry (variable, FOR
\* EACH alias, procedure parameter) and no array element holds an Exception,
\* whatever assignments, array literals, procedure calls and APPEND / INSERT
\* calls the program has made.
C12_ExceptionNeverStored ==
    /\ \A env \in DOMAIN vm.s.envs :
           \A name \in DOMAIN vm.s.envs[env].entries :
               vm.s.envs[env].entries[name].t # "Exception"
    /\ \A ref \in DOMAIN vm.s.heap :
           \A i \in DOMAIN vm.s.heap[ref].items :
               vm.s.heap[ref].items[i].t # "Exception"

\* `a <- [1]` followed by `APPEND(a, u)` was run: the call raised, the array
\* is as it was and the environment holds a.
C12_Witness ==
    /\ Finished
    /\ input = StoringProgram(<<"A", "P", "P", "E", "N", "D", "(", "a", ",", " ", "u", ")">>)
    /\ vm.v.t = "Exception"
    /\ <<"a">> \in DOMAIN vm.s.envs[1].entries
    /\ vm.s.heap[1].items = <<Int2Number(1)>>
    /\ \E i \in DOMAIN vm.s.log : vm.s.log[i].k = "write"

(***************************************************************************)
(* INSERT and REMOVE.                                                      *)
(***************************************************************************)

\* The run went on after the call and the array holds `items`.
CallSucceeded(items) ==
    /\ vm.v = Void
    /\ vm.s.heap[1].items = items
    /\ vm.s.out = <<<<Int2Number(Len(items))>>>>

\* The call raised and the array holds `items`, what it held before.
CallRaised(items) ==
    /\ vm.v.t = "Exception"
    /\ vm.s.heap[1].items = items
    /\ vm.s.out = <<>>

\* The array of length len with 0 put at the 1-based position idx.
Inserted(len, idx) ==
    [k \in 1..(len + 1) |->
        IF k < idx THEN Int2Number(Item(k))
        ELSE IF k = idx THEN Int2Number(0)
        ELSE Int2Number(Item(k - 1))]

\* The array of length len without the item at the 1-based position idx.
Removed(len, idx) ==
    [k \in 1..(len - 1) |-> IF k < idx THEN Int2Number(Item(k)) ELSE Int2Number(Item(k + 1))]

\* C13: INSERT(arr, idx, v) accepts every integer idx in [1, len+1]: it puts
\* v at the 1-based position idx, shifts the later items right and grows the
\* length by one; INSERT(arr, len+1, v) appends, and INSERT at 1 on an empty
\* array succeeds.  Any idx outside [1, len+1] raises and leaves the array
\* as it was.
C13_InsertRange ==
    Finished =>
        \A len \in 0..MaxLen, idx \in 0..(MaxLen + 2) :
            input = InsertProgram(len, idx) =>
                IF idx \in 1..(len + 1)
                THEN CallSucceeded(Inserted(len, idx))
                ELSE CallRaised(ItemsOfLength(len))

\* What stdlib::insert accepts is [1, len]: INSERT at len+1 raises, so an
\* empty array takes no INSERT at all.
C13_InsertWithinLength ==
    Finished =>
        \A len \in 0..MaxLen, idx \in 0..(MaxLen + 2) :
            input = InsertProgram(len, idx) =>
                IF idx \in 1..len
                THEN CallSucceeded(Inserted(len, idx))
                ELSE CallRaised(ItemsOfLength(len))

\* C14: REMOVE(arr, idx) succeeds exactly when idx is an integer-valued
\* number in [1, len]: it deletes the item at the 1-based position idx and
\* shrinks the length by one; for idx < 1, idx > len or a fractional idx it
\* raises and the array is left as it was.
C14_RemoveRange ==
    Finished =>
        \A len \in 0..MaxLen, idx \in RemoveIndices :
            input = RemoveProgram(len, idx.text) =>
                IF idx.d = 1 /\ idx.n \in 1..len
                THEN CallSucceeded(Removed(len, idx.n))
                ELSE CallRaised(ItemsOfLength(len))

\* REMOVE(a, 1.5) on an array of three items raised for the fraction and the
\* three items are still there.
C14_Witness ==
    /\ Finished
    /\ input = RemoveProgram(3, <<"1", ".", "5">>)
    /\ vm.v.t = "Exception"
    /\ vm.v.message = "array index is not an integer"
    /\ vm.s.heap[1].items = ItemsOfLength(3)

\* REMOVE(a, 2.0) took the second of three items.
C14_RemovedTheSecondOfThree ==
    /\ Finished
    /\ input = RemoveProgram(3, <<"2", ".", "0">>)
    /\ vm.s.heap[1].items = <<Int2Number(Item(1)), Int2Number(Item(3))>>
    /\ vm.s.out = <<<<Int2Number(2)>>>>

(***************************************************************************)
(* The lexer on its own.                                                   *)
(***************************************************************************)

\* Lexer::next has been called on the text at least once.
Lexed == command = "lex" /\ pc # "start"

\* The token just deposited is not EOF.
DepositedToken == Lexed /\ parser.lex.token # "EOF"

\* source[a..b] of the token just deposited, lexed on its own.
Relexed == Lexer_next(Slice(input, parser.lex.start, parser.lex.index), Lexer_new)

\* The slice of the token lexes to the same token, which spans all of it.
RoundTrips ==
    /\ Relexed.token = parser.lex.token
    /\ Relexed.start = 0
    /\ Relexed.index = parser.lex.index - parser.lex.start

\* C15: for every source text and every token other than EOF that
\* Lexer::next produces with span [a, b), lexing source[a..b] on its own
\* yields the same token as its first token, spanning the whole slice; so it
\* is for `<-`, `<=`, `>=` and `!=`, which span their two characters.
C15_LexRoundTrip ==
    /\ DepositedToken => RoundTrips
    /\ (DepositedToken /\ parser.lex.token \in {"ThinArrow", "LessEqual", "GreaterEqual", "NotEqual"})
           => parser.lex.index = parser.lex.start + 2

\* It holds of every token but NotEqual, when the call deposited one: at a
\* byte no arm of Lexer::next matches (a `.` outside a number) the call
\* leaves the token of the call before, with an empty span.
C15_RoundTripOfAllButNotEqual ==
    /\ (DepositedToken /\ parser.lex.token # "NotEqual"
            /\ parser.lex.index > parser.lex.start) => RoundTrips
    /\ (DepositedToken /\ parser.lex.token \in {"ThinArrow", "LessEqual", "GreaterEqual"}
            /\ parser.lex.index > parser.lex.start)
           => parser.lex.index = parser.lex.start + 2

\* NotEqual spans the `!` only, which lexes to Equal on its own; the `=` is
\* left for the next token.
C15_NotEqualSpansTheBang ==
    (DepositedToken /\ parser.lex.token = "NotEqual") =>
        /\ parser.lex.index = parser.lex.start + 1
        /\ Slice(input, parser.lex.start, parser.lex.index) = <<"!">>
        /\ Get(input, parser.lex.index) = "="
        /\ Relexed.token = "Equal"

\* The token just deposited starts at a `"`.
DepositedString == DepositedToken /\ Get(input, parser.lex.start) = "\""

\* The first `"` after the opening one is at offset j.
ClosedAt(j) ==
    /\ j > parser.lex.start
    /\ Get(input, j) = "\""
    /\ \A i \in (parser.lex.start + 1)..(j - 1) : Get(input, i) # "\""

\* C16: when the lexer meets `"` and reaches the end of the input before a
\* closing `"`, the token it deposits is InvalidStringLiteral, never
\* StringLiteral; when a closing quote is found the token is StringLiteral
\* and its span includes both quotes.
C16_UnterminatedStrings ==
    DepositedString =>
        IF \E j \in 0..Len(input) : ClosedAt(j)
        THEN /\ parser.lex.token = "StringLiteral"
             /\ \E j \in 0..Len(input) : ClosedAt(j) /\ parser.lex.index = j + 1
        ELSE parser.lex.token = "InvalidStringLiteral"

\* What is deposited for a string that is not closed: StringLiteral, up to
\* the end of the input.
C16_UnterminatedIsStringLiteral ==
    (DepositedString /\ ~\E j \in 0..Len(input) : ClosedAt(j)) =>
        /\ parser.lex.token = "StringLiteral"
        /\ parser.lex.index = Len(input)

\* The first token of the text has been deposited.
FirstToken == command = "lex" /\ pc # "start" /\ parser.calls = 1

\* C17: for every reserved word k of NOT, AND, OR, IF, ELSE, REPEAT, TIMES,
\* UNTIL, MOD, TRUE, FALSE, RETURN, FOR, EACH, IN, PROCEDURE, the text that
\* is k spelled all in upper case or all in lower case lexes to Keyword(k)
\* and not to Identifier; `%` lexes to the token of MOD; any other
\* identifier-shaped text lexes to Identifier.
C17_KeywordRecognition ==
    FirstToken =>
        /\ \A w \in ReservedWords :
               input \in {w.upper, w.lower} =>
                   /\ parser.lex.token = w.token
                   /\ Lexer_span(parser.lex) = Span(0, Len(input))
        /\ input = <<"%">> => parser.lex.token = "Keyword(Mod)"
        /\ input \in OtherWords =>
               /\ parser.lex.token = "Identifier"
               /\ Lexer_span(parser.lex) = Span(0, Len(input))

\* It holds of every reserved word but MOD, which KEYWORDS does not list:
\* `MOD` and `mod` lex to Identifier.
C17_KeywordsWithoutMod ==
    FirstToken =>
        /\ \A w \in ReservedWords :
               input \in {w.upper, w.lower} =>
                   parser.lex.token = IF w.token = "Keyword(Mod)" THEN "Identifier" ELSE w.token
        /\ input = <<"%">> => parser.lex.token = "Keyword(Mod)"
        /\ input \in OtherWords => parser.lex.token = "Identifier"

(***************************************************************************)
(* Where RETURN and PROCEDURE may stand.                                   *)
(***************************************************************************)

\* The number of diagnostics recorded with the message.
DiagnosticsOf(message) ==
    Cardinality({i \in DOMAIN parser.diagnostics : parser.diagnostics[i].message = message})

\* The number of statements of a kind in a scope and the scopes nested in it.
RECURSIVE CountStmts(_, _)
RECURSIVE CountIn(_, _)
CountStmts(scope, kind) ==
    IF scope = <<>> THEN 0
    ELSE CountIn(Head(scope), kind) + CountStmts(Tail(scope), kind)

RECURSIVE CountElseIfs(_, _)
CountElseIfs(else_ifs, kind) ==
    IF else_ifs = <<>> THEN 0
    ELSE CountStmts(Head(else_ifs).scope, kind) + CountElseIfs(Tail(else_ifs), kind)

CountIn(stmt, kind) ==
    (IF stmt.t = kind THEN 1 ELSE 0)
        + (CASE stmt.t = "If" ->
                  CountStmts(stmt.scope, kind) + CountElseIfs(stmt.else_ifs, kind)
                      + CountStmts(stmt.els.scope, kind)
             [] stmt.t \in {"Procedure", "RepeatN", "RepeatUntil", "For"} ->
                  CountStmts(stmt.scope, kind)
             [] OTHER -> 0)

\* C18: parse_scope records a diagnostic for a RETURN statement exactly when
\* the RETURN is not inside any PROCEDURE body (a RETURN in an IF, REPEAT or
\* FOR EACH block at the top level included), and one for every PROCEDURE
\* definition inside another PROCEDURE body; in both cases the statement is
\* still added to the AST and parsing goes on to the end of the text.
C18_ScopePolicy ==
    ParsedProgram =>
        \A c \in ScopeCases :
            input = ScopeProgram(c.text) =>
                /\ DiagnosticsOf(<<"RETURN statements cannot be outside of function scopes">>)
                       = c.returns
                /\ DiagnosticsOf(<<"PROCEDUREs cannot be outside of the global scope">>)
                       = c.procedures
                /\ value.ok
                /\ CountStmts(value.x, "Return") = c.return_stmts
                /\ CountStmts(value.x, "Procedure") = c.procedure_stmts
                /\ value.x[Len(value.x)].t = "Expr"
                /\ value.x[Len(value.x)].e.t = "FnCall"
                /\ parser.lex.token = "EOF"

\* A program with a RETURN inside a procedure body and a RETURN outside it
\* was parsed: one diagnostic, and both statements are in the AST.
C18_Witness ==
    /\ ParsedProgram
    /\ \E c \in ScopeCases :
           /\ input = ScopeProgram(c.text)
           /\ c.returns = 1
           /\ c.return_stmts = 2
           /\ c.procedure_stmts = 1
           /\ Len(parser.diagnostics) = 1
           /\ CountStmts(value.x, "Return") = 2

(***************************************************************************)
(* Assignment to an element.                                               *)
(***************************************************************************)

\* parse_scope(true) has returned and the entry point has not yet looked at
\* what it left.
JustParsed == pc = "parsed" /\ command \in {"run", "interpret"}

\* The program is one IndexAssign of the literal 2.
IsIndexAssign ==
    /\ value.ok
    /\ Len(value.x) = 1
    /\ value.x[1].t = "IndexAssign"
    /\ value.x[1].value.t = "IntegerLiteral"
    /\ parser.lex.token = "EOF"

\* C19: a statement `lhs <- rhs` whose left expression is an Index node
\* parses to IndexAssign{root, index, value}; for every left expression that
\* is neither a bare identifier nor an Index (a call, a parenthesized
\* expression, an array literal, a number), the statement is a parse error:
\* at least one diagnostic is recorded, whatever blanks or line break follow
\* the `<-`.
C19_IndexAssignGrammar ==
    JustParsed =>
        \A lhs \in AssignTargets, space \in AfterArrow :
            input = AssignProgram(lhs.text, space) =>
                IF lhs.index
                THEN IsIndexAssign /\ parser.diagnostics = <<>>
                ELSE parser.diagnostics # <<>>

\* The diagnostic there is comes from expect_stmt_end, called once the `<-`
\* is consumed: it is recorded when the right side is on the line of the
\* arrow, and none is recorded when a line break follows the arrow, or when
\* the left side starts with a token that starts no statement.
C19_DiagnosticOnTheSameLineOnly ==
    JustParsed =>
        \A lhs \in AssignTargets, space \in AfterArrow :
            input = AssignProgram(lhs.text, space) =>
                IF lhs.index
                THEN IsIndexAssign /\ parser.diagnostics = <<>>
                ELSE (parser.diagnostics # <<>>) <=> (lhs.starts /\ ~BreaksLine(space))

\* `(x) <-` with 2 on the next line parses, without a diagnostic, to the two
\* expression statements (x) and 2.
C19_ParenTargetIsTwoStatements ==
    (JustParsed /\ input = AssignProgram(<<"(", "x", ")">>, <<"\n">>)) =>
        /\ value.ok
        /\ parser.diagnostics = <<>>
        /\ Len(value.x) = 2
        /\ value.x[1].t = "Expr" /\ value.x[1].e.t = "Paren"
        /\ value.x[2].t = "Expr" /\ value.x[2].e.t = "IntegerLiteral"

(***************************************************************************)
(* The display of strings.                                                 *)
(***************************************************************************)

\* A body with each escaping backslash dropped and the character after it
\* kept as it is.
RECURSIVE Unescaped(_)
Unescaped(body) ==
    IF body = <<>> THEN <<>>
    ELSE IF Head(body) = "\\"
    THEN (IF Len(body) >= 2 THEN <<body[2]>> \o Unescaped(Tail(Tail(body))) ELSE <<>>)
    ELSE <<Head(body)>> \o Unescaped(Tail(body))

\* The number of escaping backslashes of a body: a backslash that follows an
\* escaping one is a character, not an escape.
RECURSIVE Escapes_In(_)
Escapes_In(body) ==
    IF body = <<>> THEN 0
    ELSE IF Head(body) = "\\"
    THEN 1 + (IF Len(body) >= 2 THEN Escapes_In(Tail(Tail(body))) ELSE 0)
    ELSE Escapes_In(Tail(body))

\* What the one DISPLAY call of the program wrote.
Displayed == vm.s.out[1][1].s

\* C20: the rendering of a String for DISPLAY drops each backslash and emits
\* the character that follows it as it is, and emits every other character
\* unchanged; the length of the output is the length of the body minus the
\* number of escaping backslashes.
C20_StringDisplay ==
    Finished =>
        \A body \in StringBodies :
            input = DisplayStringProgram(body) =>
                /\ vm.v = Void
                /\ Len(vm.s.out) = 1
                /\ vm.s.out[1][1].t = "Text"
                /\ Displayed = Unescaped(body)
                /\ Len(Displayed) = Len(body) - Escapes_In(body)

\* A body with each escaping backslash dropped together with the character
\* after it.
RECURSIVE Skipped(_)
Skipped(body) ==
    IF body = <<>> THEN <<>>
    ELSE IF Head(body) = "\\"
    THEN (IF Len(body) >= 2 THEN Skipped(Tail(Tail(body))) ELSE <<>>)
    ELSE <<Head(body)>> \o Skipped(Tail(body))

\* What is displayed: the character after a backslash is dropped with it.
C20_EscapedCharacterIsDropped ==
    Finished =>
        \A body \in StringBodies :
            input = DisplayStringProgram(body) =>
                /\ vm.v = Void
                /\ Len(vm.s.out) = 1
                /\ vm.s.out[1][1].t = "Text"
                /\ Displayed = Skipped(body)

\* It holds of the bodies without a backslash, and of a backslash that ends
\* the body.
C20_StringDisplayWithoutEscapedCharacter ==
    Finished =>
        \A body \in StringBodies :
            (input = DisplayStringProgram(body) /\ Unescaped(body) = Skipped(body)) =>
                /\ Displayed = Unescaped(body)
                /\ Len(Displayed) = Len(body) - Escapes_In(body)

(***************************************************************************)
(* Runtime errors.                                                         *)
(***************************************************************************)

\* C21: for every program that parses without diagnostics, the evaluation
\* returns a value or an Exception and never aborts the interpreter: not on
\* a hex or binary literal, an ELSE IF condition that is not a Bool, a bare
\* RETURN in a procedure, or an index of 0 or below.
C21_NoAbortPath ==
    (Finished /\ parser.diagnostics = <<>>) => vm.v.t # "Abort"

\* What happens instead: each of these programs parses without a diagnostic
\* and aborts the run.
C21_EachCaseAborts ==
    Finished =>
        \A c \in PanicCases :
            (input = c.text /\ build \in c.builds) =>
                /\ parser.diagnostics = <<>>
                /\ vm.v = Abort(c.why)
                /\ outcome = "panic"

\* In a build without overflow checks the indices 0 and -1 return an
\* Exception.
C21_IndexBelowOneRaisesInRelease ==
    Finished =>
        \A c \in PanicCases :
            (input = c.text /\ build \notin c.builds) =>
                /\ vm.v.t = "Exception"
                /\ vm.v.message = "index {} is out of array range (length: {})"

(***************************************************************************)
(* Variable assignment and the environments of calls.                      *)
(***************************************************************************)

\* The numbers that each environment binds, as pairs of name and integer.
NumberBindings(envs) ==
    [i \in 1..Len(envs) |->
        {<<n, envs[i].entries[n].num>> :
            n \in {m \in DOMAIN envs[i].entries : envs[i].entries[m].t = "Number"}}]

\* The environments from `env` up to the global one, nearest first.
RECURSIVE ParentChain(_, _)
ParentChain(envs, env) ==
    IF envs[env].parent = 0 THEN <<env>> ELSE <<env>> \o ParentChain(envs, envs[env].parent)

\* The environment that `name <- e` evaluated in `env` is to write: the nearest
\* one of the parent chain that binds `name`, or `env` itself when none does.
Written(envs, env, name) ==
    IF \E k \in 1..Len(ParentChain(envs, env)) :
          name \in DOMAIN envs[ParentChain(envs, env)[k]].entries
    THEN ParentChain(envs, env)[
             CHOOSE k \in 1..Len(ParentChain(envs, env)) :
                 /\ name \in DOMAIN envs[ParentChain(envs, env)[k]].entries
                 /\ \A j \in 1..(k - 1) :
                        name \notin DOMAIN envs[ParentChain(envs, env)[j]].entries]
    ELSE env

AssignedNames == {<<"x">>, <<"t">>, <<"r">>, <<"q">>, <<"F">>}

\* What the end of Stmt::VarAssign makes of the environments of the state
\* reached, for the assignment of the number 0 to `name` in `env`.
AfterAssign(env, name) ==
    Assign(name, Binder(vm.s.envs, env, name), env, Ret(Int2Number(0), vm.s)).s.envs

\* C22: `name <- e` evaluated in an environment overwrites the nearest binding
\* of the name on the parent chain, creates the binding in that environment
\* itself when the chain has none, and leaves every other binding of every
\* environment as it was; a name first assigned in a procedure body is bound
\* in the environment of the call and not in the caller's.
C22_AssignBinding ==
    Finished =>
        /\ \A c \in BindingCases :
               (input = c.text) => NumberBindings(vm.s.envs) = c.bindings
        /\ \A c \in BindingCases :
               (input = c.text /\ c.kind = "undefined") =>
                   /\ vm.v.t = "Exception"
                   /\ vm.v.message = "'{}' is not defined"
        /\ \A env \in 1..Len(vm.s.envs) : \A name \in AssignedNames :
               /\ Len(AfterAssign(env, name)) = Len(vm.s.envs)
               /\ name \in DOMAIN AfterAssign(env, name)[Written(vm.s.envs, env, name)].entries
               /\ AfterAssign(env, name)[Written(vm.s.envs, env, name)].entries[name]
                      = Int2Number(0)
               /\ \A i \in 1..Len(vm.s.envs) :
                      /\ AfterAssign(env, name)[i].parent = vm.s.envs[i].parent
                      /\ DOMAIN AfterAssign(env, name)[i].entries \ {name}
                             = DOMAIN vm.s.envs[i].entries \ {name}
                      /\ \A n \in DOMAIN vm.s.envs[i].entries :
                             (n # name \/ i # Written(vm.s.envs, env, name)) =>
                                 /\ n \in DOMAIN AfterAssign(env, name)[i].entries
                                 /\ AfterAssign(env, name)[i].entries[n]
                                        = vm.s.envs[i].entries[n]
                      /\ (i # Written(vm.s.envs, env, name)
                          /\ name \notin DOMAIN vm.s.envs[i].entries) =>
                             name \notin DOMAIN AfterAssign(env, name)[i].entries

\* A run of a program of BindingCases in which a procedure body created a
\* binding of its own and one in which it overwrote a binding of its caller.
C22_Witness ==
    /\ Finished
    /\ \E c \in BindingCases :
           /\ input = c.text
           /\ c.kind \in {"creates", "overwrites"}
           /\ Len(vm.s.envs) >= 2
           /\ NumberBindings(vm.s.envs) = c.bindings
           /\ vm.v.t = "Void"

\* The parent of each environment, 0 for the global one.
Parents(envs) == [i \in 1..Len(envs) |-> envs[i].parent]

\* C23: a call evaluates the body in a fresh environment whose parent is the
\* environment of the call site, not the one of the definition: a procedure
\* G called from the body of F reads the local t of F, an assignment to t in
\* G replaces the binding of F, and the same G called from the global scope
\* has the global environment as parent.
C23_DynamicScoping ==
    Finished =>
        /\ \A i \in 2..Len(vm.s.envs) : vm.s.envs[i].parent \in 1..(i - 1)
        /\ \A c \in BindingCases :
               (input = c.text /\ c.kind = "dynamic") =>
                   /\ vm.v.t = "Void"
                   /\ Parents(vm.s.envs) = c.parents
                   /\ NumberBindings(vm.s.envs) = c.bindings

\* A run in which G was called from the body of F: the environment of that
\* call has the environment of the call of F as parent.
C23_Witness ==
    /\ Finished
    /\ \E c \in BindingCases :
           /\ input = c.text
           /\ c.kind = "dynamic"
           /\ Len(vm.s.envs) = 4
           /\ vm.s.envs[4].parent = 3
           /\ vm.s.envs[2].parent = 1
           /\ <<<<"t">>, 9>> \in NumberBindings(vm.s.envs)[3]

(***************************************************************************)
(* The Exception of a built-in at the call site.                           *)
(***************************************************************************)

\* C24: when a built-in returns an Exception, the call expression returns an
\* Exception with the same message, the span of the whole call expression as
\* its span instead of the zero span of the built-in, and an empty stack; the
\* procedure calls around it then append their call sites.
C24_BuiltinFailureRewrap ==
    Finished =>
        \A c \in BuiltinFailureCases :
            (input = c.text) =>
                /\ vm.v = Exception(c.message, c.call, c.stack)
                /\ \E k \in DOMAIN vm.s.log :
                       vm.s.log[k] = Event("raise", c.message, c.call)
                /\ \A k \in DOMAIN vm.s.log :
                       Raised(vm.s.log[k]) => vm.s.log[k].span # NoSpan

\* A built-in failed in a procedure body two calls deep: the Exception that
\* ends the run has the span of the call of the built-in and both call sites.
C24_Witness ==
    /\ Finished
    /\ \E c \in BuiltinFailureCases :
           /\ input = c.text
           /\ Len(c.stack) = 2
           /\ vm.v.t = "Exception"
           /\ vm.v.span = c.call
           /\ Len(vm.v.stack) = 2

(***************************************************************************)
(* REPEAT UNTIL                                                            *)
(***************************************************************************)

\* The positions of the log at which the expression of kind `kind` at `span`
\* was evaluated.
Evaluations(kind, span) ==
    {k \in DOMAIN vm.s.log : vm.s.log[k] = Event("expr", kind, span)}

\* C25: REPEAT UNTIL evaluates its condition before every run of the body,
\* the first included: the body runs only while the condition is false, not
\* at all when the condition is true at entry, the loop ends the first time
\* the condition is true, and a condition that is not a Bool gives an
\* Exception without a run of the body.
C25_RepeatUntil ==
    Finished =>
        \A c \in RepeatUntilCases :
            (input = c.text) =>
                /\ vm.v.t = c.ends
                /\ (c.ends = "Exception") => vm.v.message = "{} is not a boolean"
                /\ Cardinality(Evaluations("BinaryOp", c.body)) = c.runs
                /\ Cardinality(Evaluations(c.kind, c.cond)) = c.runs + 1
                /\ \A b \in Evaluations("BinaryOp", c.body) :
                       Cardinality({k \in Evaluations(c.kind, c.cond) : k < b})
                           = Cardinality({k \in Evaluations("BinaryOp", c.body) : k < b}) + 1
                /\ NumberBindings(vm.s.envs)[1] \cap ({<<"n">>} \X Int)
                       = {<<<<"n">>, c.runs>>}

\* A loop whose condition was true at entry and one whose body ran three
\* times before the condition became true.
C25_Witness ==
    /\ Finished
    /\ \E c \in RepeatUntilCases :
           /\ input = c.text
           /\ c.runs \in {0, 3}
           /\ c.ends = "Void"
           /\ vm.v.t = "Void"
           /\ Cardinality(Evaluations(c.kind, c.cond)) = c.runs + 1

(***************************************************************************)
(* has_newline_before                                                      *)
(***************************************************************************)

\* The lexer after `calls` calls of Lexer::next on the input.
RECURSIVE LexerAfter(_)
LexerAfter(calls) ==
    IF calls = 0 THEN Lexer_new ELSE Lexer_next(input, LexerAfter(calls - 1))

\* The bytes that the last call of Lexer::next went over before the start of
\* what it deposited.
SkippedBefore == LexerAfter(parser.calls - 1).index .. (parser.lex.start - 1)

\* C26: has_newline_before is true after a call of Lexer::next exactly when
\* the run of whitespace that the call skipped before the token it deposited
\* has a carriage return or a line feed in it, whatever the order of the
\* spaces, tabs and line breaks of the run; every call starts from false.
C26_NewlineTracking ==
    (Lexed /\ parser.calls >= 1) =>
        /\ parser.lex = LexerAfter(parser.calls)
        /\ \A k \in SkippedBefore : Get(input, k) \in Whitespace
        /\ Get(input, parser.lex.start) \notin Whitespace
        /\ parser.lex.has_newline_before
               <=> \E k \in SkippedBefore : Get(input, k) \in Newline

\* The second token of a text was deposited after a run of a space, a line
\* break and a tab, and the one of another text after spaces and tabs only.
C26_Witness ==
    /\ Lexed
    /\ parser.calls = 2
    /\ parser.lex.token = "Identifier"
    /\ \/ /\ input = <<"a", " ", "\n", "\t", "b">>
          /\ parser.lex.has_newline_before
       \/ /\ input = <<"a", " ", "\t", " ", "b">>
          /\ ~parser.lex.has_newline_before

(***************************************************************************)
(* Progress of the lexer and termination of the parser.                    *)
(***************************************************************************)

\* The bytes that an arm of the `match` of Lexer::next other than `_ => {}`
\* takes when the token starts with them.
TokenStartBytes ==
    PunctuationBytes \cup {"!", ">", "<", "\""} \cup IdentStart \cup Digits

\* The last call of Lexer::next deposited a token of at least one byte, or
\* EOF at the end of the input.
MadeProgress ==
    \/ /\ parser.lex.index > parser.lex.start
       /\ parser.lex.start >= LexerAfter(parser.calls - 1).index
    \/ /\ parser.lex.token = "EOF"
       /\ parser.lex.start = Len(input)
       /\ parser.lex.index = Len(input)

\* C27: on every input, bytes outside the token alphabet included, each call
\* of Lexer::next either moves the index forward and deposits a token for the
\* bytes consumed, or deposits EOF at the end of the input; so parse_scope
\* terminates on every input.
C27_LexerProgress ==
    (Lexed /\ parser.calls >= 1) => MadeProgress

\* What holds instead: a call makes progress when the byte after the skipped
\* whitespace starts a token or the input is at its end, EOF is deposited
\* again by every later call, and at any other byte the call deposits
\* nothing: the token of the call before stays, with an empty span, and every
\* later call leaves the lexer there.
C27_ProgressAtTokenStartBytesOnly ==
    (Lexed /\ parser.calls >= 1) =>
        /\ (Get(input, parser.lex.start) \in TokenStartBytes \cup {None}) => MadeProgress
        /\ (parser.lex.token = "EOF" /\ Get(input, parser.lex.start) = None) =>
               Lexer_next(input, parser.lex)
                   = [parser.lex EXCEPT !.has_newline_before = FALSE]
        /\ (Get(input, parser.lex.start) \notin TokenStartBytes \cup {None}) =>
               /\ parser.lex.index = parser.lex.start
               /\ parser.lex.token = LexerAfter(parser.calls - 1).token
               /\ Lexer_next(input, parser.lex)
                      = [parser.lex EXCEPT !.has_newline_before = FALSE]

\* With the lexer at such a byte and an identifier or an integer as the token
\* that stayed, one round of the loop of parse_scope parses a statement,
\* adds a diagnostic and leaves the lexer where it was: the loop has no end
\* and the diagnostics grow without bound.
C27_ParseScopeRepeatsAtOtherByte ==
    (/\ Lexed
     /\ parser.calls >= 1
     /\ Get(input, parser.lex.start) \notin TokenStartBytes \cup {None}
     /\ parser.lex.token \in {"Identifier", "IntegerLiteral"}) =>
        /\ StartsStatement(parser.lex.token)
        /\ ParseStmt(input, parser, Advance(input, parser), TRUE).ok
        /\ ParseStmt(input, parser, Advance(input, parser), TRUE).p.lex
               = [parser.lex EXCEPT !.has_newline_before = FALSE]
        /\ Len(ParseStmt(input, parser, Advance(input, parser), TRUE).p.diagnostics)
               = Len(parser.diagnostics) + 1

\* The lexer stands at a `.` after an identifier was deposited.
C27_AtOtherByte ==
    /\ Lexed
    /\ parser.calls = 2
    /\ Get(input, parser.lex.start) = "."
    /\ parser.lex.token = "Identifier"

(***************************************************************************)
(* Err and the diagnostics.                                                *)
(***************************************************************************)

\* C28: whenever parse_scope or parse_expr returns Err the diagnostic vector
\* of the parser is not empty, so the `unwrap` of the parse result that
\* follows the check of the diagnostics in `run` only meets Ok.
C28_ErrHasDiagnostic ==
    /\ (ParsedProgram /\ ~parser.diverged /\ ~value.ok) => parser.diagnostics # <<>>
    /\ (ParsedExpression /\ ~parser.diverged /\ ~value.ok) => parser.diagnostics # <<>>
    /\ Finished => vm.v # Abort("unwrap on Err")

\* What holds instead: parse_expr on its own never returns Err without a
\* diagnostic, and parse_scope does so exactly for a statement that starts
\* with an identifier, is not an Index and is followed by `<-` and a line
\* break; `run` and `interpret` then abort in `unwrap`.
C28_ErrWithoutDiagnosticAfterArrow ==
    /\ (ParsedExpression /\ ~parser.diverged /\ ~value.ok) => parser.diagnostics # <<>>
    /\ (ParsedProgram /\ ~parser.diverged /\ ~value.ok /\ parser.diagnostics = <<>>) =>
           \E lhs \in AssignTargets, space \in AfterArrow :
               /\ input = AssignProgram(lhs.text, space)
               /\ Head(lhs.text) \in IdentStart
               /\ ~lhs.index
               /\ BreaksLine(space)
    /\ (Finished /\ ~value.ok /\ parser.diagnostics = <<>>) =>
           /\ vm.v = Abort("unwrap on Err")
           /\ outcome = "panic"

\* `run` on `f() <-` with 2 on the next line has aborted.
C28_UnwrapOnErr ==
    /\ Finished
    /\ command = "run"
    /\ input = AssignProgram(<<"f", "(", ")">>, <<"\n">>)
    /\ ~value.ok
    /\ parser.diagnostics = <<>>
    /\ outcome = "panic"

(***************************************************************************)
(* `run` and the end of the input.                                         *)
(***************************************************************************)

\* C29: `run` evaluates a program only if the parser consumed the whole
\* input: when parse_scope(true) returns Ok without a diagnostic the token of
\* the lexer is EOF, and a source whose next statement starts with a token
\* that begins no statement is not cut short and run.
C29_RunConsumesWholeInput ==
    /\ (ParsedProgram /\ value.ok /\ parser.diagnostics = <<>>) =>
           parser.lex.token = "EOF"
    /\ (Finished /\ command = "run" /\ outcome # "exit 1") =>
           /\ parser.lex.token = "EOF"
           /\ \A c \in TruncatedCases : input # c.text

\* What holds instead: parse_scope(true) stops at the token that begins no
\* statement and returns the statements before it without a diagnostic; `run`
\* evaluates them and exits with 0, and `interpret`, which compares the token
\* with EOF, reports "expected statement" and evaluates nothing.
C29_RunEvaluatesTheStatementsBefore ==
    \A c \in TruncatedCases :
        (Finished /\ input = c.text) =>
            /\ value.ok
            /\ Len(value.x) = 1
            /\ parser.lex.token = c.token
            /\ (command = "run") =>
                   /\ parser.diagnostics = <<>>
                   /\ outcome = "exit 0"
                   /\ Len(vm.s.out) = 1
            /\ (command = "interpret") =>
                   /\ Len(parser.diagnostics) = 1
                   /\ parser.diagnostics[1].message = <<"expected statement, found", c.token>>
                   /\ outcome = "Data"
                   /\ vm.s.out = <<>>

\* `run` has evaluated the DISPLAY(1) before a string literal and exited
\* with 0.
C29_TruncatedAndRun ==
    /\ Finished
    /\ command = "run"
    /\ \E c \in TruncatedCases : input = c.text /\ c.token = "StringLiteral"
    /\ outcome = "exit 0"
    /\ Len(vm.s.out) = 1

(***************************************************************************)
(* A store into an array while the array is in use.                        *)
(***************************************************************************)

\* The numbers that the array `ref` holds.
ItemsOf(ref) == [k \in 1..Len(vm.s.heap[ref].items) |-> vm.s.heap[ref].items[k].num]

\* C30: `a[i] <- e` with a right side e that reads the array a itself
\* completes: e is evaluated without a conflicting access to the array,
\* element i then holds the value of e and the other elements are as they
\* were; the same holds for `a[i] <- e` in the body of FOR EACH v IN a.
C30_StoreIntoArrayInUse ==
    Finished =>
        \A c \in SelfStoreCases :
            (input = c.text) =>
                /\ vm.v.t = "Void"
                /\ ItemsOf(1) = c.items
                /\ Len(vm.s.out) = 1

\* What holds instead: the store borrows the array mutably before it
\* evaluates the right side, so a read of the same array on the right side
\* aborts, and so does the store into an array that the FOR EACH around it
\* has borrowed; the array is left as it was and nothing is displayed.  With
\* another array in these places the store completes.
C30_StoreIntoArrayInUseAborts ==
    Finished =>
        \A c \in SelfStoreCases :
            (input = c.text) =>
                IF c.aborts = "none"
                THEN /\ vm.v.t = "Void"
                     /\ ItemsOf(1) = c.items
                     /\ Len(vm.s.out) = 1
                ELSE /\ parser.diagnostics = <<>>
                     /\ vm.v = Abort(c.aborts)
                     /\ outcome = "panic"
                     /\ ItemsOf(1) = <<1, 2>>
                     /\ vm.s.out = <<>>

\* The run of `a[1] <- a[2]` has aborted.
C30_ReadOfStoredArrayAborted ==
    /\ Finished
    /\ \E c \in SelfStoreCases :
           /\ input = c.text
           /\ c.aborts = "already mutably borrowed"
           /\ c.items = <<2, 2>>
           /\ vm.v.t = "Abort"

====
